---- MODULE Spec2Model ----
(***************************************************************************)
(* A model of the conversation engine of the Distribution-Center bot: five *)
(* ConversationHandlers (create, read, update, delete, insights) that are  *)
(* registered side by side in bot.py, the per-user scratch mapping         *)
(* (context.user_data) they share, and the worksheet they read and write.  *)
(* Strings are TLA+ strings; the conversions of keyboards.py are computed  *)
(* character by character.                                                 *)
(***************************************************************************)
EXTENDS Integers, Sequences, FiniteSets, TLC

VARIABLES
    conv,       \* per user: the dialogs that are active and the state of each
    user_data,  \* per user: context.user_data
    sheet,      \* the data rows of the worksheet
    next_id,    \* how many uuid4 row ids were drawn, plus one
    clock,      \* how many times the worksheet was written
    last,       \* history: the update handled last
    plan,       \* the inputs of a scripted single-entry run (NoPlan otherwise)
    gsheet,     \* gsheet_utils.GSHEET_CONNECTED and whether gsheet_utils.worksheet is set
    insights,   \* a call of calculate_average_prices: its arguments and its result
    fetcher,    \* the application's update queue, the update whose handler is
                \* running, and the updates handled so far
    rendered    \* the page of entries the read dialog rendered last (NoPage if none)

vars == <<conv, user_data, sheet, next_id, clock, last, plan, gsheet, insights, fetcher, rendered>>

(***************************************************************************)
(* Bounds of the model.                                                    *)
(***************************************************************************)
\* how many of the configured products / locations the keyboards offer
NumProducts == 2
NumLocations == 1
\* how many rows are ever appended (uuid4 values drawn) in one run
MaxIds == 2
\* how many times the worksheet is written in one run: the run ends with
\* the last of these writes
MaxWrites == 1
\* highest page index a "view last" button carries
MaxPage == 1
\* how many dialogs one user keeps open side by side
MaxActive == 2
\* how many fields a user ticks in the update dialog's field selection
MaxSelected == 2

(***************************************************************************)
(* Python str operations used by the handlers.                             *)
(***************************************************************************)
UPPER == "ABCDEFGHIJKLMNOPQRSTUVWXYZ"
LOWER == "abcdefghijklmnopqrstuvwxyz"
DIGITS == "0123456789"

\* 1-based position of the one-character string c in s, 0 when absent
IndexIn(c, s) ==
    IF \E i \in 1..Len(s) : SubSeq(s, i, i) = c
    THEN CHOOSE i \in 1..Len(s) : SubSeq(s, i, i) = c
    ELSE 0

IsUpper(c) == IndexIn(c, UPPER) > 0
IsLower(c) == IndexIn(c, LOWER) > 0
IsCased(c) == IsUpper(c) \/ IsLower(c)
IsDigit(c) == IndexIn(c, DIGITS) > 0

ToLowerCh(c) == IF IsUpper(c) THEN LET i == IndexIn(c, UPPER) IN SubSeq(LOWER, i, i) ELSE c
ToUpperCh(c) == IF IsLower(c) THEN LET i == IndexIn(c, LOWER) IN SubSeq(UPPER, i, i) ELSE c

\* str.lower()
RECURSIVE StrLower(_)
StrLower(s) == IF s = "" THEN "" ELSE ToLowerCh(Head(s)) \o StrLower(Tail(s))

\* str.replace(old, new) for a non-empty old: every occurrence, left to right
RECURSIVE StrReplace(_, _, _)
StrReplace(s, old, new) ==
    IF Len(s) < Len(old) THEN s
    ELSE IF SubSeq(s, 1, Len(old)) = old
         THEN new \o StrReplace(SubSeq(s, Len(old) + 1, Len(s)), old, new)
         ELSE Head(s) \o StrReplace(Tail(s), old, new)

\* str.title(): a cased character is upper-cased when the character before
\* it is not cased, and lower-cased otherwise
RECURSIVE TitleFrom(_, _)
TitleFrom(s, prevCased) ==
    IF s = "" THEN ""
    ELSE LET c == Head(s)
         IN (IF IsCased(c) THEN (IF prevCased THEN ToLowerCh(c) ELSE ToUpperCh(c)) ELSE c)
            \o TitleFrom(Tail(s), IsCased(c))

StrTitle(s) == TitleFrom(s, FALSE)

\* re.match("^" + prefix + ".*", s)
StartsWith(s, prefix) == Len(s) >= Len(prefix) /\ SubSeq(s, 1, Len(prefix)) = prefix

\* str.isdigit() / the regex \d+
RECURSIVE AllDigits(_)
AllDigits(s) == IF s = "" THEN TRUE ELSE IsDigit(Head(s)) /\ AllDigits(Tail(s))

IsDigitString(s) == s # "" /\ AllDigits(s)

\* int(s) of a digit string
RECURSIVE DigitsValue(_, _)
DigitsValue(s, acc) ==
    IF s = "" THEN acc ELSE DigitsValue(Tail(s), 10 * acc + (IndexIn(Head(s), DIGITS) - 1))

\* str.strip() of the texts the model sends (none carries outer blanks)
RECURSIVE StripLeft(_)
StripLeft(s) == IF s # "" /\ Head(s) = " " THEN StripLeft(Tail(s)) ELSE s
RECURSIVE StripRight(_)
StripRight(s) ==
    IF s # "" /\ SubSeq(s, Len(s), Len(s)) = " " THEN StripRight(SubSeq(s, 1, Len(s) - 1)) ELSE s
StrStrip(s) == StripRight(StripLeft(s))

\* str.split('_')[-1]: the part after the last underscore
RECURSIVE LastPart(_, _)
LastPart(s, acc) ==
    IF s = "" THEN acc
    ELSE IF Head(s) = "_" THEN LastPart(Tail(s), "") ELSE LastPart(Tail(s), acc \o Head(s))

(***************************************************************************)
(* Python values held in user_data and in worksheet cells.  A value is a   *)
(* tagged record: a str, a float (kept in hundredths) or None.             *)
(***************************************************************************)
Str(s) == [t |-> "str", s |-> s, n |-> 0]
Num(n) == [t |-> "float", s |-> "", n |-> n]
None == [t |-> "None", s |-> "", n |-> 0]

\* Python truthiness of a value: `not v`
Falsy(v) == v = None \/ v = Str("") \/ (v.t = "float" /\ v.n = 0)

EmptyDict == <<>>

\* dict.get(k, default)
Get(d, k, default) == IF k \in DOMAIN d THEN d[k] ELSE default

\* d[k] = v
Put(d, k, v) == (k :> v) @@ d

\* del d[k] / d.pop(k)
Del(d, k) == [x \in (DOMAIN d) \ {k} |-> d[x]]

\* x in list
InList(x, l) == \E i \in 1..Len(l) : l[i] = x

\* list.remove(x): the first occurrence
ListRemove(l, x) ==
    LET i == CHOOSE j \in 1..Len(l) : l[j] = x /\ \A k \in 1..(j - 1) : l[k] # x
    IN SubSeq(l, 1, i - 1) \o SubSeq(l, i + 1, Len(l))

\* float(text): an optional sign, digits and at most one decimal point with
\* at most two decimals; the value is kept in hundredths
DotAt(s) == IndexIn(".", s)

ParseFloat(text) ==
    LET s == StrStrip(text)
        neg == s # "" /\ Head(s) = "-"
        body == IF s # "" /\ (Head(s) = "-" \/ Head(s) = "+") THEN Tail(s) ELSE s
        dot == DotAt(body)
        ip == IF dot = 0 THEN body ELSE SubSeq(body, 1, dot - 1)
        fp == IF dot = 0 THEN "" ELSE SubSeq(body, dot + 1, Len(body))
        ok == AllDigits(ip) /\ AllDigits(fp) /\ (ip # "" \/ fp # "") /\ Len(fp) <= 2
        frac == IF Len(fp) = 0 THEN 0
                ELSE IF Len(fp) = 1 THEN 10 * DigitsValue(fp, 0) ELSE DigitsValue(fp, 0)
        mag == 100 * DigitsValue(ip, 0) + frac
    IN IF ok THEN [ok |-> TRUE, val |-> IF neg THEN 0 - mag ELSE mag]
       ELSE [ok |-> FALSE, val |-> 0]

(***************************************************************************)
(* config.py                                                               *)
(***************************************************************************)
ID_FIELD == "id"
TIMESTAMP_FIELD == "timestamp"
EMAIL_FIELD == "email_address"
PRODUCT_FIELD == "product_list"
PRICE_FIELD == "buying_price"
LOCATION_FIELD == "location"
REMARK_FIELD == "production_remark"

DEFAULT_HEADERS ==
    <<ID_FIELD, TIMESTAMP_FIELD, EMAIL_FIELD, PRODUCT_FIELD, PRICE_FIELD, LOCATION_FIELD, REMARK_FIELD>>

\* gsheet_utils.HEADERS once the sheet is initialised with the default header row
HEADERS == DEFAULT_HEADERS

\* the first NumProducts / NumLocations of these entries of config.PRODUCTS
\* and config.LOCATIONS are offered on the keyboards
ConfiguredProducts == <<"Carrot", "Beet root", "Corn", "Garlic">>
ConfiguredLocations ==
    <<"Distribution Center 3 02", "Distribution Center 1 Gerji", "Distribution Center 2 Garment">>

PRODUCTS == SubSeq(ConfiguredProducts, 1, NumProducts)
LOCATIONS == SubSeq(ConfiguredLocations, 1, NumLocations)

CREATE_CHOOSE_ENTRY_TYPE == 0
CREATE_BATCH_SELECT_LOCATION == 1
CREATE_BATCH_ENTER_REMARK == 2
CREATE_BATCH_TOGGLE_PRODUCTS == 3
CREATE_BATCH_ENTER_PRICE == 4
CREATE_BATCH_CONFIRM_SUBMISSION == 5
CREATE_SINGLE_SELECT_PRODUCT == 6
CREATE_SINGLE_ENTER_PRICE == 7
CREATE_SINGLE_SELECT_LOCATION == 8
CREATE_SINGLE_ENTER_REMARK == 9
CREATE_SINGLE_CONFIRM_SUBMISSION == 10
UPDATE_ASK_ID == 11
UPDATE_SELECT_FIELDS_TOGGLE == 12
UPDATE_ENTER_MULTIPLE_VALUES == 13
UPDATE_CONFIRM_MULTIPLE == 14
DELETE_ASK_ID == 15
DELETE_CONFIRM == 16
VIEW_AWAITING_MENU_CHOICE == 17
VIEW_AWAITING_ID_INPUT == 18
VIEW_PAGINATING_ENTRIES == 19
INSIGHTS_MENU_DISPLAYED == 21

\* ConversationHandler.END
END == -1

CB_MAIN_MENU_PREFIX == "menu_nav_"
CB_OPEN_MENU_FROM_START == "menu_open_from_start"
CB_CREATE_CHOOSE_TYPE_SINGLE == "create_choose_single"
CB_CREATE_CHOOSE_TYPE_BATCH == "create_choose_batch"
CB_CREATE_CANCEL_ENTIRE == "create_op_cancel_all"
CB_CREATE_BATCH_COMMON_LOCATION_PREFIX == "create_b_loc_"
CB_CREATE_BATCH_PRODUCT_TOGGLE_PREFIX == "create_b_prod_toggle_"
CB_CREATE_BATCH_PRODUCTS_DONE == "create_b_prod_done"
CB_CREATE_BATCH_SUBMIT_FINAL == "create_b_submit_final"
CB_CREATE_BATCH_CANCEL_CONFIRM == "create_b_cancel_conf"
CB_CREATE_SINGLE_PRODUCT_PREFIX == "create_s_prod_"
CB_CREATE_SINGLE_LOCATION_PREFIX == "create_s_loc_"
CB_CREATE_SINGLE_SUBMIT_FINAL == "create_s_submit_final"
CB_CREATE_SINGLE_CANCEL_CONFIRM == "create_s_cancel_conf"
CB_UPDATE_FIELD_TOGGLE_PREFIX == "update_field_"
CB_UPDATE_PROCEED_WITH_SELECTION == "update_proceed_sel"
CB_UPDATE_CANCEL_FIELD_SELECTION == "update_cancel_sel"
CB_UPDATE_NEWVAL_PRODUCT_PREFIX == "update_val_prod_"
CB_UPDATE_NEWVAL_LOCATION_PREFIX == "update_val_loc_"
CB_UPDATE_EXECUTE_CONFIRMED == "update_execute_now"
CB_UPDATE_CANCEL_FINAL_CONFIRM == "update_cancel_final"
CB_DELETE_CONFIRM_YES == "delete_do_yes"
CB_DELETE_CONFIRM_NO == "delete_do_no"
CB_VIEW_LAST_N_PREFIX == "view_last_"
CB_VIEW_BY_ID_PROMPT_ACTION == "view_by_id_ask"
CB_VIEW_CANCEL_ACTION == "view_op_cancel"
CB_VIEW_BACK_TO_MENU_ACTION == "view_back_to_main_menu"
CB_INSIGHTS_PREFIX == "insights_action_"

DEFAULT_ENTRIES_PER_PAGE_VIEW == 5

\* update.py
UPDATABLE_FIELDS_DISPLAY_ORDER == <<"product", "price", "location", "remark">>

UPDATABLE_FIELDS_MAP ==
    [product |-> PRODUCT_FIELD, price |-> PRICE_FIELD, location |-> LOCATION_FIELD,
     remark |-> REMARK_FIELD]

(***************************************************************************)
(* keyboards.py                                                            *)
(***************************************************************************)
clean_and_format_for_display(raw_string) == StrTitle(StrReplace(raw_string, "_", " "))

\* build_keyboard with suffix_from_item: the callback data of an item's button
ButtonData(prefix, item_text) == prefix \o StrLower(StrReplace(item_text, " ", "_"))

\* ask_batch_products_selection builds its own slug: product.replace(' ', '_').lower()
ProductToggleData(product) ==
    CB_CREATE_BATCH_PRODUCT_TOGGLE_PREFIX \o StrLower(StrReplace(product, " ", "_"))

SeqToSet(l) == {l[i] : i \in 1..Len(l)}

(***************************************************************************)
(* Inbound events: a message (a command when its text starts with "/") or  *)
(* a button press carrying callback data.                                  *)
(***************************************************************************)
Users == {"u1", "u2"}

Msg(text) == [kind |-> "message", text |-> text, data |-> ""]
Btn(data) == [kind |-> "callback", text |-> "", data |-> data]

\* str(uuid.uuid4()) of the k-th row ever appended
IdText(k) == "id" \o SubSeq(DIGITS, k + 1, k + 1)

CommandTexts ==
    {"/new", "/view", "/update", "/delete", "/insights", "/cancel", "/start", "/help", "/menu",
     "/skip_remark_single", "/skip_remark_batch", "/skip_remark_update"}

\* free text a user types: a valid price, a non-positive number (which is
\* also an id no row has), and the id of the row the worksheet holds when
\* the bot starts (which is also the non-numeric text)
FreeTexts == {"12.5", "0", IdText(0)}

UpdateFieldKeys == SeqToSet(UPDATABLE_FIELDS_DISPLAY_ORDER)

InsightActions == {"by_product", "by_location", "by_prod_loc", "cancel"}

\* callback data of every button the bot renders
ButtonDatas ==
    {CB_MAIN_MENU_PREFIX \o x : x \in {"new", "update", "delete", "view", "insights", "menu"}}
    \cup {CB_OPEN_MENU_FROM_START}
    \cup {CB_CREATE_CHOOSE_TYPE_SINGLE, CB_CREATE_CHOOSE_TYPE_BATCH, CB_CREATE_CANCEL_ENTIRE}
    \cup {ButtonData(CB_CREATE_BATCH_COMMON_LOCATION_PREFIX, l) : l \in SeqToSet(LOCATIONS)}
    \cup {ProductToggleData(p) : p \in SeqToSet(PRODUCTS)}
    \cup {CB_CREATE_BATCH_PRODUCTS_DONE, CB_CREATE_BATCH_SUBMIT_FINAL, CB_CREATE_BATCH_CANCEL_CONFIRM}
    \cup {ButtonData(CB_CREATE_SINGLE_PRODUCT_PREFIX, p) : p \in SeqToSet(PRODUCTS)}
    \cup {ButtonData(CB_CREATE_SINGLE_LOCATION_PREFIX, l) : l \in SeqToSet(LOCATIONS)}
    \cup {CB_CREATE_SINGLE_SUBMIT_FINAL, CB_CREATE_SINGLE_CANCEL_CONFIRM}
    \cup {CB_UPDATE_FIELD_TOGGLE_PREFIX \o k : k \in UpdateFieldKeys}
    \cup {CB_UPDATE_PROCEED_WITH_SELECTION, CB_UPDATE_CANCEL_FIELD_SELECTION}
    \cup {ButtonData(CB_UPDATE_NEWVAL_PRODUCT_PREFIX, p) : p \in SeqToSet(PRODUCTS)}
    \cup {ButtonData(CB_UPDATE_NEWVAL_LOCATION_PREFIX, l) : l \in SeqToSet(LOCATIONS)}
    \cup {CB_UPDATE_EXECUTE_CONFIRMED, CB_UPDATE_CANCEL_FINAL_CONFIRM}
    \cup {CB_DELETE_CONFIRM_YES, CB_DELETE_CONFIRM_NO}
    \cup {CB_VIEW_LAST_N_PREFIX \o SubSeq(DIGITS, k + 1, k + 1) : k \in 0..MaxPage}
    \cup {CB_VIEW_BY_ID_PROMPT_ACTION, CB_VIEW_CANCEL_ACTION, CB_VIEW_BACK_TO_MENU_ACTION}
    \cup {CB_INSIGHTS_PREFIX \o a : a \in InsightActions}

MessageEvents == {Msg(t) : t \in CommandTexts \cup FreeTexts}
ButtonEvents == {Btn(d) : d \in ButtonDatas}
Events == MessageEvents \cup ButtonEvents

\* the callback data of a button that navigates: a button of the main menu
\* or of the keyboard shown after an action ("menu_nav_..."), or a page of
\* "view last" ("view_last_<page>"); "" for any other event
NavOf(e) ==
    IF StartsWith(e.data, CB_MAIN_MENU_PREFIX) \/ StartsWith(e.data, CB_VIEW_LAST_N_PREFIX)
    THEN e.data ELSE ""

IsCommand(e) == e.kind = "message" /\ e.text # "" /\ Head(e.text) = "/"

(***************************************************************************)
(* Handler matchers (telegram.ext): CommandHandler, MessageHandler with    *)
(* filters.TEXT & ~filters.COMMAND, CallbackQueryHandler with a pattern.   *)
(***************************************************************************)
Command(name, h) == [kind |-> "command", arg |-> <<name>>, h |-> h]
Text(h) == [kind |-> "text", arg |-> <<>>, h |-> h]
\* pattern ^(a|b|...)$
Exact(alts, h) == [kind |-> "cb_exact", arg |-> alts, h |-> h]
\* pattern ^(a|b|...).*
Prefix(alts, h) == [kind |-> "cb_prefix", arg |-> alts, h |-> h]
\* pattern ^prefix\d+$
PrefixDigits(prefix, h) == [kind |-> "cb_prefix_digits", arg |-> <<prefix>>, h |-> h]
\* no pattern: every callback query
AnyCallback(h) == [kind |-> "cb_any", arg |-> <<>>, h |-> h]

Matches(m, e) ==
    CASE m.kind = "command" -> e.kind = "message" /\ e.text = "/" \o m.arg[1]
      [] m.kind = "text" -> e.kind = "message" /\ ~IsCommand(e)
      [] m.kind = "cb_exact" -> e.kind = "callback" /\ \E i \in 1..Len(m.arg) : e.data = m.arg[i]
      [] m.kind = "cb_prefix" ->
            e.kind = "callback" /\ \E i \in 1..Len(m.arg) : StartsWith(e.data, m.arg[i])
      [] m.kind = "cb_prefix_digits" ->
            /\ e.kind = "callback"
            /\ StartsWith(e.data, m.arg[1])
            /\ IsDigitString(SubSeq(e.data, Len(m.arg[1]) + 1, Len(e.data)))
      [] m.kind = "cb_any" -> e.kind = "callback"

\* the handler of the first matcher of the list that accepts e, "" when none does
FirstMatch(ms, e) ==
    IF \E i \in 1..Len(ms) : Matches(ms[i], e)
    THEN ms[CHOOSE i \in 1..Len(ms) : Matches(ms[i], e) /\ \A j \in 1..(i - 1) : ~Matches(ms[j], e)].h
    ELSE ""

create_conv_handler ==
    [entry_points |-> <<Command("new", "start_new_entry"),
                        Exact(<<CB_MAIN_MENU_PREFIX \o "new">>, "start_new_entry")>>,
     states |->
        (CREATE_CHOOSE_ENTRY_TYPE :>
            <<Exact(<<CB_CREATE_CHOOSE_TYPE_SINGLE, CB_CREATE_CHOOSE_TYPE_BATCH,
                      CB_CREATE_CANCEL_ENTIRE>>, "handle_entry_type_selection")>>)
        @@ (CREATE_BATCH_SELECT_LOCATION :>
            <<Prefix(<<CB_CREATE_BATCH_COMMON_LOCATION_PREFIX>>, "batch_common_location_selection")>>)
        @@ (CREATE_BATCH_ENTER_REMARK :>
            <<Command("skip_remark_batch", "batch_skip_common_remark"),
              Text("batch_common_remark_entry")>>)
        @@ (CREATE_BATCH_TOGGLE_PRODUCTS :>
            <<Prefix(<<CB_CREATE_BATCH_PRODUCT_TOGGLE_PREFIX>>, "toggle_batch_product_selection"),
              Exact(<<CB_CREATE_BATCH_PRODUCTS_DONE>>, "batch_products_selection_done")>>)
        @@ (CREATE_BATCH_ENTER_PRICE :> <<Text("batch_price_entry")>>)
        @@ (CREATE_BATCH_CONFIRM_SUBMISSION :>
            <<Exact(<<CB_CREATE_BATCH_SUBMIT_FINAL>>, "submit_batch_data"),
              Exact(<<CB_CREATE_BATCH_CANCEL_CONFIRM>>, "cancel_conversation")>>)
        @@ (CREATE_SINGLE_SELECT_PRODUCT :>
            <<Prefix(<<CB_CREATE_SINGLE_PRODUCT_PREFIX>>, "single_entry_product_selection")>>)
        @@ (CREATE_SINGLE_ENTER_PRICE :> <<Text("single_entry_price_entry")>>)
        @@ (CREATE_SINGLE_SELECT_LOCATION :>
            <<Prefix(<<CB_CREATE_SINGLE_LOCATION_PREFIX>>, "single_entry_location_selection")>>)
        @@ (CREATE_SINGLE_ENTER_REMARK :>
            <<Command("skip_remark_single", "single_skip_remark_entry"),
              Text("single_entry_remark_entry")>>)
        @@ (CREATE_SINGLE_CONFIRM_SUBMISSION :>
            <<Exact(<<CB_CREATE_SINGLE_SUBMIT_FINAL>>, "submit_single_entry_data"),
              Exact(<<CB_CREATE_SINGLE_CANCEL_CONFIRM>>, "cancel_conversation")>>),
     fallbacks |-> <<Command("cancel", "cancel_conversation"),
                     Exact(<<CB_CREATE_CANCEL_ENTIRE>>, "cancel_conversation"),
                     AnyCallback("post_conversation_callback_handler")>>]

read_conv_handler ==
    [entry_points |-> <<Command("view", "view_entries_command"),
                        Exact(<<CB_MAIN_MENU_PREFIX \o "view">>, "view_entries_command")>>,
     states |->
        (VIEW_AWAITING_MENU_CHOICE :>
            <<Exact(<<CB_VIEW_BY_ID_PROMPT_ACTION>>, "prompt_for_id_callback"),
              PrefixDigits(CB_VIEW_LAST_N_PREFIX, "view_last_entries_callback"),
              Exact(<<CB_VIEW_CANCEL_ACTION>>, "cancel_view_callback")>>)
        @@ (VIEW_AWAITING_ID_INPUT :> <<Text("handle_id_for_view")>>)
        @@ (VIEW_PAGINATING_ENTRIES :>
            <<PrefixDigits(CB_VIEW_LAST_N_PREFIX, "view_last_entries_callback"),
              Exact(<<CB_VIEW_BACK_TO_MENU_ACTION>>, "navigate_back_to_view_menu"),
              Exact(<<CB_VIEW_CANCEL_ACTION>>, "cancel_view_callback")>>),
     fallbacks |-> <<Command("cancel", "cancel_conversation"),
                     Exact(<<CB_VIEW_CANCEL_ACTION>>, "cancel_view_callback"),
                     AnyCallback("post_conversation_callback_handler")>>]

update_conv_handler ==
    [entry_points |-> <<Command("update", "start_update_entry"),
                        Exact(<<CB_MAIN_MENU_PREFIX \o "update">>, "start_update_entry")>>,
     states |->
        (UPDATE_ASK_ID :> <<Text("ask_id_received")>>)
        @@ (UPDATE_SELECT_FIELDS_TOGGLE :>
            <<Prefix(<<CB_UPDATE_FIELD_TOGGLE_PREFIX>>, "toggle_field_selection_callback"),
              Exact(<<CB_UPDATE_PROCEED_WITH_SELECTION>>, "proceed_with_selected_fields_callback"),
              Exact(<<CB_UPDATE_CANCEL_FIELD_SELECTION>>, "cancel_update_operation_callback")>>)
        @@ (UPDATE_ENTER_MULTIPLE_VALUES :>
            <<Prefix(<<CB_UPDATE_NEWVAL_PRODUCT_PREFIX, CB_UPDATE_NEWVAL_LOCATION_PREFIX>>,
                     "new_value_for_product_or_location_callback"),
              Command("skip_remark_update", "skip_remark_update_command"),
              Text("new_value_for_text_field_received")>>)
        @@ (UPDATE_CONFIRM_MULTIPLE :>
            <<Exact(<<CB_UPDATE_EXECUTE_CONFIRMED>>, "execute_multiple_updates"),
              Exact(<<CB_UPDATE_CANCEL_FINAL_CONFIRM>>, "cancel_conversation")>>),
     fallbacks |-> <<Command("cancel", "cancel_conversation"),
                     AnyCallback("post_conversation_callback_handler")>>]

delete_conv_handler ==
    [entry_points |-> <<Command("delete", "start_delete_entry"),
                        Exact(<<CB_MAIN_MENU_PREFIX \o "delete">>, "start_delete_entry")>>,
     states |->
        (DELETE_ASK_ID :> <<Text("ask_id_received_for_delete")>>)
        @@ (DELETE_CONFIRM :>
            <<Exact(<<CB_DELETE_CONFIRM_YES, CB_DELETE_CONFIRM_NO>>, "confirm_delete_callback")>>),
     fallbacks |-> <<Command("cancel", "cancel_conversation"),
                     AnyCallback("post_conversation_callback_handler")>>]

insights_conv_handler ==
    [entry_points |-> <<Command("insights", "start_insights_menu"),
                        Exact(<<CB_MAIN_MENU_PREFIX \o "insights">>, "start_insights_menu")>>,
     states |->
        (INSIGHTS_MENU_DISPLAYED :> <<Prefix(<<CB_INSIGHTS_PREFIX>>, "insights_menu_callback")>>),
     fallbacks |-> <<Command("cancel", "cancel_conversation"),
                     Exact(<<CB_INSIGHTS_PREFIX \o "cancel">>, "insights_menu_callback"),
                     AnyCallback("post_conversation_callback_handler")>>]

\* bot.py: the handlers in the order main() adds them (all in group 0)
Dialogs == {"create", "read", "update", "delete", "insights"}

ConversationHandlers ==
    [create |-> create_conv_handler, read |-> read_conv_handler, update |-> update_conv_handler,
     delete |-> delete_conv_handler, insights |-> insights_conv_handler]

\* a registration that puts the read dialog ahead of the create dialog
RegistrationOrderReadFirst == <<"read", "create", "update", "delete", "insights">>

RegistrationOrder == <<"create", "read", "update", "delete", "insights">>

GlobalHandlers ==
    <<Command("start", "generic_start_command"), Command("help", "generic_start_command"),
      Command("menu", "main_menu_command_simple"),
      Exact(<<CB_OPEN_MENU_FROM_START>>, "start_menu_callback")>>

\* the states a dialog declares
StatesOf(d) == DOMAIN ConversationHandlers[d].states

(***************************************************************************)
(* Dispatch.  Each ConversationHandler keeps its own state per user        *)
(* (conv[u] maps the dialogs that are active for u to their state); the    *)
(* application offers an update to the handlers of a group in the order    *)
(* they were added and runs the first one whose check accepts it.          *)
(***************************************************************************)
\* every state some dialog declares
AllStates == UNION {StatesOf(d) : d \in Dialogs}

\* ConversationHandler.check_update for a dialog that is not active for the
\* user: the entry points
CheckEntry(d, e) == FirstMatch(ConversationHandlers[d].entry_points, e)

\* ConversationHandler.check_update for a dialog in state st: the handlers
\* of that state (none for a state the dialog does not declare), then the
\* fallbacks
CheckState(d, st, e) ==
    LET ch == ConversationHandlers[d]
        hs == IF st \in DOMAIN ch.states THEN ch.states[st] ELSE <<>>
        m == FirstMatch(hs, e)
    IN IF m # "" THEN m ELSE FirstMatch(ch.fallbacks, e)

\* the two checks, tabulated over the events of the model
EntryTable == [d \in Dialogs |-> [e \in Events |-> CheckEntry(d, e)]]
StateTable == [d \in Dialogs |-> [st \in AllStates |-> [e \in Events |-> CheckState(d, st, e)]]]
GlobalTable == [e \in Events |-> FirstMatch(GlobalHandlers, e)]

CheckUpdateAllowingReentry(d, c, e) ==
    IF d \in DOMAIN c /\ EntryTable[d][e] = "" THEN StateTable[d][c[d]][e] ELSE EntryTable[d][e]

CheckUpdate(d, c, e) == IF d \in DOMAIN c THEN StateTable[d][c[d]][e] ELSE EntryTable[d][e]

\* the dialog and handler that receive event e of a user whose dialogs are c;
\* d = "" for a handler outside the dialogs, h = "" when nothing accepts e
RECURSIVE RouteFrom(_, _, _)
RouteFrom(i, c, e) ==
    IF i > Len(RegistrationOrder) THEN [d |-> "", h |-> GlobalTable[e]]
    ELSE LET h == CheckUpdate(RegistrationOrder[i], c, e)
         IN IF h # "" THEN [d |-> RegistrationOrder[i], h |-> h] ELSE RouteFrom(i + 1, c, e)

Route(c, e) == RouteFrom(1, c, e)

\* event e of user u goes to handler h of dialog d; a user who has MaxActive
\* dialogs open does not start a further one, and a run ends with its
\* MaxWrites-th write to the worksheet
Routed(u, e, d, h) ==
    /\ clock < MaxWrites
    /\ Route(conv[u], e) = [d |-> d, h |-> h]
    /\ (d # "" /\ d \notin DOMAIN conv[u]) => Cardinality(DOMAIN conv[u]) < MaxActive

\* ConversationHandler._update_state: END removes the conversation, any
\* other returned state is stored
UpdateState(c, d, new_state) == IF new_state = END THEN Del(c, d) ELSE Put(c, d, new_state)

(***************************************************************************)
(* What a handler run leaves behind: the state it returns, user_data as it *)
(* left it, the exception that escaped it ("" when none), and what it last *)
(* rendered (text and keyboard).                                           *)
(***************************************************************************)
Res(ret, ud, out, kb) == [ret |-> ret, ud |-> ud, exc |-> "", out |-> out, kb |-> kb]
Raise(ud, exc) == [ret |-> END, ud |-> ud, exc |-> exc, out |-> "", kb |-> ""]

\* an application that keeps one dict of fields for all users
ApplyWithSharedFields(u, e, d, h, r, new_sheet, new_next_id, new_clock) ==
    /\ conv' = [conv EXCEPT ![u] = IF r.exc # "" \/ d = "" THEN @ ELSE UpdateState(@, d, r.ret)]
    /\ user_data' = [v \in Users |-> r.ud]
    /\ sheet' = new_sheet
    /\ next_id' = new_next_id
    /\ clock' = new_clock
    /\ plan' = plan
    /\ gsheet' = gsheet
    /\ insights' = insights
    /\ fetcher' = fetcher
    /\ rendered' = rendered
    /\ last' = [user |-> u, nav |-> NavOf(e), d |-> d, h |-> h, ret |-> r.ret, exc |-> r.exc,
                out |-> IF r.exc # "" THEN "error_apology" ELSE r.out,
                kb |-> IF r.exc # "" THEN "" ELSE r.kb]

\* an application that ends the dialog and clears user_data when the handler
\* raised
ApplyEndingOnError(u, e, d, h, r, new_sheet, new_next_id, new_clock) ==
    /\ conv' = [conv EXCEPT ![u] = IF d = "" THEN @ ELSE UpdateState(@, d, r.ret)]
    /\ user_data' = [user_data EXCEPT ![u] = IF r.exc # "" THEN EmptyDict ELSE r.ud]
    /\ sheet' = new_sheet
    /\ next_id' = new_next_id
    /\ clock' = new_clock
    /\ plan' = plan
    /\ gsheet' = gsheet
    /\ insights' = insights
    /\ fetcher' = fetcher
    /\ rendered' = rendered
    /\ last' = [user |-> u, nav |-> NavOf(e), d |-> d, h |-> h, ret |-> r.ret, exc |-> r.exc,
                out |-> IF r.exc # "" THEN "error_apology" ELSE r.out,
                kb |-> IF r.exc # "" THEN "" ELSE r.kb]

\* the step of the application for one update: the handler's effects, then
\* the conversation state (untouched when the handler raised; the error
\* handler only logs and replies)
Apply(u, e, d, h, r, new_sheet, new_next_id, new_clock) ==
    /\ conv' = [conv EXCEPT ![u] = IF r.exc # "" \/ d = "" THEN @ ELSE UpdateState(@, d, r.ret)]
    /\ user_data' = [user_data EXCEPT ![u] = r.ud]
    /\ sheet' = new_sheet
    /\ next_id' = new_next_id
    /\ clock' = new_clock
    /\ plan' = plan
    /\ gsheet' = gsheet
    /\ insights' = insights
    /\ fetcher' = fetcher
    /\ rendered' = rendered
    /\ last' = [user |-> u, nav |-> NavOf(e), d |-> d, h |-> h, ret |-> r.ret, exc |-> r.exc,
                out |-> IF r.exc # "" THEN "error_apology" ELSE r.out,
                kb |-> IF r.exc # "" THEN "" ELSE r.kb]

\* a handler that does not touch the worksheet
ApplyLocal(u, e, d, h, r) == Apply(u, e, d, h, r, sheet, next_id, clock)

(***************************************************************************)
(* common_handlers.py, handlers/menu.py                                    *)
(***************************************************************************)
\* a main menu that clears the fields
main_menu_command_clearing(ud) == Res(END, EmptyDict, "Welcome! Select an option:", "main_menu")

main_menu_command_simple(ud) == Res(END, ud, "Welcome! Select an option:", "main_menu")

\* a cancel that ends the dialog and leaves the fields
cancel_conversation_keeping_fields(ud) ==
    Res(END, ud, "Operation canceled. What would you like to do next?", "post_action")


cancel_conversation(ud) ==
    Res(END, EmptyDict, "Operation canceled. What would you like to do next?", "post_action")

(***************************************************************************)
(* handlers/create.py                                                      *)
(***************************************************************************)
_get_current_entry_data(ud) == Put(ud, "current_entry", Get(ud, "current_entry", EmptyDict))

_clear_current_entry_data(ud) == IF "current_entry" \in DOMAIN ud THEN Del(ud, "current_entry") ELSE ud

start_new_entry(ud) ==
    Res(CREATE_CHOOSE_ENTRY_TYPE, EmptyDict, "How would you like to add new data?", "create_type")

post_conversation_callback_handler(ud, data) ==
    IF data = CB_MAIN_MENU_PREFIX \o "menu"
    THEN main_menu_command_simple(EmptyDict)
    ELSE IF data = CB_MAIN_MENU_PREFIX \o "new"
         THEN start_new_entry(EmptyDict)
         ELSE Res(END, EmptyDict, "", "")

ask_single_entry_product(ud) ==
    Res(CREATE_SINGLE_SELECT_PRODUCT, _clear_current_entry_data(ud),
        "Please select the Product:", "products")

ask_batch_common_location(ud) ==
    Res(CREATE_BATCH_SELECT_LOCATION, ud, "Please select a common LOCATION for this batch:",
        "locations")

handle_entry_type_selection(ud, choice) ==
    IF choice = CB_CREATE_CHOOSE_TYPE_SINGLE THEN ask_single_entry_product(ud)
    ELSE IF choice = CB_CREATE_CHOOSE_TYPE_BATCH
         THEN ask_batch_common_location(
                Put(Put(ud, "batch_entries", <<>>), "batch_selected_products", <<>>))
         ELSE IF choice = CB_CREATE_CANCEL_ENTIRE THEN cancel_conversation(ud)
              ELSE Res(CREATE_CHOOSE_ENTRY_TYPE, ud, "", "")

batch_common_location_selection(ud, data) ==
    LET raw_location_slug == StrReplace(data, CB_CREATE_BATCH_COMMON_LOCATION_PREFIX, "")
        selected_location == clean_and_format_for_display(raw_location_slug)
    IN Res(CREATE_BATCH_ENTER_REMARK, Put(ud, "batch_common_location", selected_location),
           "Now, please enter common remarks for this batch", "")

ask_batch_products_selection(ud) ==
    LET ud1 == Put(ud, "batch_selected_products", Get(ud, "batch_selected_products", <<>>))
    IN IF "batch_common_location" \notin DOMAIN ud1 THEN Raise(ud1, "KeyError")
       ELSE Res(CREATE_BATCH_TOGGLE_PRODUCTS, ud1, "Select all products for this batch.",
                "product_checklist")

batch_common_remark_entry(ud, text) ==
    ask_batch_products_selection(Put(ud, "batch_common_remark", text))

batch_skip_common_remark(ud) == ask_batch_products_selection(Put(ud, "batch_common_remark", ""))

\* a toggle that adds the product even when it is already on the list
toggle_batch_product_always_adds(ud, data) ==
    LET raw_product_slug == StrReplace(data, CB_CREATE_BATCH_PRODUCT_TOGGLE_PREFIX, "")
        product_name == clean_and_format_for_display(raw_product_slug)
        selected_products == Get(ud, "batch_selected_products", <<>>)
    IN ask_batch_products_selection(
            Put(ud, "batch_selected_products", Append(selected_products, product_name)))

\* a toggle that looks for the payload's slug, not the product name, on the list
toggle_batch_product_comparing_slug(ud, data) ==
    LET raw_product_slug == StrReplace(data, CB_CREATE_BATCH_PRODUCT_TOGGLE_PREFIX, "")
        product_name == clean_and_format_for_display(raw_product_slug)
        selected_products == Get(ud, "batch_selected_products", <<>>)
        toggled == IF InList(raw_product_slug, selected_products)
                   THEN ListRemove(selected_products, raw_product_slug)
                   ELSE Append(selected_products, product_name)
    IN ask_batch_products_selection(Put(ud, "batch_selected_products", toggled))

toggle_batch_product_selection(ud, data) ==
    LET raw_product_slug == StrReplace(data, CB_CREATE_BATCH_PRODUCT_TOGGLE_PREFIX, "")
        product_name == clean_and_format_for_display(raw_product_slug)
        selected_products == Get(ud, "batch_selected_products", <<>>)
        toggled == IF InList(product_name, selected_products)
                   THEN ListRemove(selected_products, product_name)
                   ELSE Append(selected_products, product_name)
    IN ask_batch_products_selection(Put(ud, "batch_selected_products", toggled))

show_batch_confirmation(ud) ==
    IF Get(ud, "batch_entries", <<>>) = <<>> THEN cancel_conversation(ud)
    ELSE IF "batch_common_location" \notin DOMAIN ud THEN Raise(ud, "KeyError")
         ELSE Res(CREATE_BATCH_CONFIRM_SUBMISSION, ud, "Submit this batch to the sheet?",
                  "batch_confirm")

\* a prompt that goes to the confirmation one product early
ask_next_price_for_batch_stopping_early(ud) ==
    LET price_queue == Get(ud, "batch_price_queue", <<>>)
    IN IF Len(price_queue) <= 1 /\ Get(ud, "batch_entries", <<>>) # <<>>
       THEN show_batch_confirmation(ud)
       ELSE IF price_queue = <<>> THEN show_batch_confirmation(ud)
       ELSE Res(CREATE_BATCH_ENTER_PRICE,
                Put(ud, "batch_current_product_for_price", price_queue[1]),
                "Please enter the buying price for the product", "")

ask_next_price_for_batch(ud) ==
    LET price_queue == Get(ud, "batch_price_queue", <<>>)
    IN IF price_queue = <<>> THEN show_batch_confirmation(ud)
       ELSE Res(CREATE_BATCH_ENTER_PRICE,
                Put(ud, "batch_current_product_for_price", price_queue[1]),
                "Please enter the buying price for the product", "")

\* a 'done' that does not look at the selection
batch_products_selection_done_unchecked(ud) ==
    LET selected_products == Get(ud, "batch_selected_products", <<>>)
    IN ask_next_price_for_batch(
            Put(Put(ud, "batch_price_queue", selected_products), "batch_entries", <<>>))

batch_products_selection_done(ud) ==
    LET selected_products == Get(ud, "batch_selected_products", <<>>)
    IN IF selected_products = <<>>
       THEN Res(CREATE_BATCH_TOGGLE_PRODUCTS, ud,
                "alert: Please select at least one product before proceeding.", "")
       ELSE ask_next_price_for_batch(
                Put(Put(ud, "batch_price_queue", selected_products), "batch_entries", <<>>))

\* a price handler that takes the next product from the end of the queue
batch_price_entry_popping_last(ud, text) ==
    LET p == ParseFloat(text)
    IN IF ~p.ok \/ p.val <= 0
       THEN Res(CREATE_BATCH_ENTER_PRICE, ud, "Invalid price. Please enter a positive number", "")
       ELSE IF "batch_current_product_for_price" \notin DOMAIN ud
                \/ ud["batch_current_product_for_price"] = ""
            THEN cancel_conversation(ud)
            ELSE LET product_name == ud["batch_current_product_for_price"]
                     ud1 == Del(ud, "batch_current_product_for_price")
                     price_queue == Get(ud1, "batch_price_queue", <<>>)
                     ud2 == IF price_queue # <<>>
                            THEN Put(ud1, "batch_price_queue",
                                     SubSeq(price_queue, 1, Len(price_queue) - 1))
                            ELSE ud1
                 IN IF "batch_common_location" \notin DOMAIN ud2
                       \/ "batch_entries" \notin DOMAIN ud2
                    THEN Raise(ud2, "KeyError")
                    ELSE LET entry_data ==
                                 [product |-> Str(product_name), price |-> Num(p.val),
                                  location |-> Str(ud2["batch_common_location"]),
                                  remark |-> Str(Get(ud2, "batch_common_remark", ""))]
                         IN ask_next_price_for_batch(
                                Put(ud2, "batch_entries", Append(ud2["batch_entries"], entry_data)))

batch_price_entry(ud, text) ==
    LET p == ParseFloat(text)
    IN IF ~p.ok \/ p.val <= 0
       THEN Res(CREATE_BATCH_ENTER_PRICE, ud, "Invalid price. Please enter a positive number", "")
       ELSE IF "batch_current_product_for_price" \notin DOMAIN ud
                \/ ud["batch_current_product_for_price"] = ""
            THEN cancel_conversation(ud)
            ELSE LET product_name == ud["batch_current_product_for_price"]
                     ud1 == Del(ud, "batch_current_product_for_price")
                     price_queue == Get(ud1, "batch_price_queue", <<>>)
                     ud2 == IF price_queue # <<>>
                            THEN Put(ud1, "batch_price_queue", Tail(price_queue))
                            ELSE ud1
                 IN IF "batch_common_location" \notin DOMAIN ud2
                       \/ "batch_entries" \notin DOMAIN ud2
                    THEN Raise(ud2, "KeyError")
                    ELSE LET entry_data ==
                                 [product |-> Str(product_name), price |-> Num(p.val),
                                  location |-> Str(ud2["batch_common_location"]),
                                  remark |-> Str(Get(ud2, "batch_common_remark", ""))]
                         IN ask_next_price_for_batch(
                                Put(ud2, "batch_entries", Append(ud2["batch_entries"], entry_data)))

single_entry_product_selection(ud, data) ==
    LET raw_product_slug == StrReplace(data, CB_CREATE_SINGLE_PRODUCT_PREFIX, "")
        selected_product == clean_and_format_for_display(raw_product_slug)
        ud1 == _get_current_entry_data(ud)
    IN Res(CREATE_SINGLE_ENTER_PRICE,
           Put(ud1, "current_entry", Put(ud1["current_entry"], "product", Str(selected_product))),
           "Please enter the buying price (e.g., 120.50):", "")

single_entry_price_entry(ud, price_text) ==
    LET ud1 == _get_current_entry_data(ud)
        p == ParseFloat(price_text)
    IN IF ~p.ok \/ p.val <= 0
       THEN Res(CREATE_SINGLE_ENTER_PRICE, ud1, "Invalid price. Please enter a positive number:", "")
       ELSE LET ud2 == Put(ud1, "current_entry", Put(ud1["current_entry"], "price", Num(p.val)))
            IN IF "product" \notin DOMAIN ud2["current_entry"] THEN Raise(ud2, "KeyError")
               ELSE Res(CREATE_SINGLE_SELECT_LOCATION, ud2, "Please select the Location:",
                        "locations")

single_entry_location_selection(ud, data) ==
    LET raw_location_slug == StrReplace(data, CB_CREATE_SINGLE_LOCATION_PREFIX, "")
        selected_location == clean_and_format_for_display(raw_location_slug)
        ud1 == _get_current_entry_data(ud)
        ud2 == Put(ud1, "current_entry", Put(ud1["current_entry"], "location", Str(selected_location)))
    IN IF {"product", "price"} \subseteq DOMAIN ud2["current_entry"]
       THEN Res(CREATE_SINGLE_ENTER_REMARK, ud2, "Please enter remarks, or use /skip_remark_single.", "")
       ELSE Raise(ud2, "KeyError")

show_single_entry_confirmation(ud) ==
    Res(CREATE_SINGLE_CONFIRM_SUBMISSION, _get_current_entry_data(ud), "Submit this entry?",
        "single_confirm")

single_entry_remark_entry(ud, text) ==
    LET ud1 == _get_current_entry_data(ud)
    IN show_single_entry_confirmation(
            Put(ud1, "current_entry", Put(ud1["current_entry"], "remark", Str(text))))

single_skip_remark_entry(ud) ==
    LET ud1 == _get_current_entry_data(ud)
    IN show_single_entry_confirmation(
            Put(ud1, "current_entry", Put(ud1["current_entry"], "remark", Str(""))))

(***************************************************************************)
(* The worksheet (gsheet_utils.py).  sheet is the sequence of data rows    *)
(* below the header row, so data row i is worksheet row i + 1; a row is    *)
(* the sequence of its cells in HEADERS order, an empty cell is Str("").   *)
(* api_ok = FALSE is a call that fails: the Sheets API raises, or the      *)
(* worksheet was never connected.                                          *)
(***************************************************************************)
Time(k) == [t |-> "datetime", s |-> "", n |-> k]

EmptyCell == Str("")
BlankRow == [i \in 1..Len(HEADERS) |-> EmptyCell]

\* a cell as the API stores a Python value: None leaves the cell empty
Cell(v) == IF v = None THEN EmptyCell ELSE v

\* HEADERS.index(field) + 1
ColOf(field) == CHOOSE i \in 1..Len(HEADERS) : HEADERS[i] = field

RECURSIVE TrimRows(_)
TrimRows(rows) ==
    IF rows # <<>> /\ rows[Len(rows)] = BlankRow THEN TrimRows(SubSeq(rows, 1, Len(rows) - 1))
    ELSE rows

\* worksheet.row_values(row): the cells up to the last non-empty one
RECURSIVE TrimCells(_)
TrimCells(cells) ==
    IF cells # <<>> /\ cells[Len(cells)] = EmptyCell THEN TrimCells(SubSeq(cells, 1, Len(cells) - 1))
    ELSE cells

\* dict(zip(HEADERS, entry_data_list))
ZipHeaders(cells) == [h \in {HEADERS[i] : i \in 1..Len(cells)} |-> cells[ColOf(h)]]

NotFound == [row_num |-> 0, values |-> <<>>]

\* find_row_by_id: (None, None) on an error or a miss, else the worksheet
\* row of the first cell of the id column that equals the text, and its values
find_row_by_id(sh, entry_id_to_find, api_ok) ==
    IF ~api_ok \/ entry_id_to_find = "" THEN NotFound
    ELSE IF \E i \in 1..Len(sh) : sh[i][ColOf(ID_FIELD)] = Str(entry_id_to_find)
         THEN LET i == CHOOSE j \in 1..Len(sh) :
                         /\ sh[j][ColOf(ID_FIELD)] = Str(entry_id_to_find)
                         /\ \A k \in 1..(j - 1) : sh[k][ColOf(ID_FIELD)] # Str(entry_id_to_find)
              IN [row_num |-> i + 1, values |-> TrimCells(sh[i])]
         ELSE NotFound

\* worksheet.append_rows: below the last row that holds data
AppendRows(sh, rows) == sh \o rows

\* worksheet.delete_rows(row_number)
DeleteRow(sh, row_number) ==
    LET i == row_number - 1
    IN IF i >= 1 /\ i <= Len(sh)
       THEN TrimRows(SubSeq(sh, 1, i - 1) \o SubSeq(sh, i + 1, Len(sh)))
       ELSE sh

\* worksheet.batch_update of single-cell ranges of one row; writes maps
\* column numbers to values; rows between the data and the row stay blank
BatchUpdate(sh, row_number, writes) ==
    LET i == row_number - 1
        padded == IF i <= Len(sh) THEN sh
                  ELSE sh \o [k \in 1..(i - Len(sh)) |-> BlankRow]
    IN TrimRows([padded EXCEPT ![i] =
                    [c \in 1..Len(HEADERS) |-> IF c \in DOMAIN writes THEN Cell(writes[c]) ELSE @[c]]])

\* a row of HEADERS order from a row_data dict: row_data.get(h, "")
RowOf(row_data) == [i \in 1..Len(HEADERS) |-> Cell(Get(row_data, HEADERS[i], EmptyCell))]

\* get_all_data_for_insights keeps a record when product and location are
\* truthy and the price parses as a float > 0 (thousands commas removed)
PriceOfCell(c) ==
    IF c.t = "float" THEN [ok |-> TRUE, val |-> c.n]
    ELSE IF c.t = "str" THEN ParseFloat(StrReplace(StrStrip(c.s), ",", ""))
         ELSE [ok |-> FALSE, val |-> 0]

ValidForInsights(row) ==
    /\ ~Falsy(row[ColOf(PRODUCT_FIELD)])
    /\ ~Falsy(row[ColOf(LOCATION_FIELD)])
    /\ PriceOfCell(row[ColOf(PRICE_FIELD)]).ok
    /\ PriceOfCell(row[ColOf(PRICE_FIELD)]).val > 0

\* the group_by_key argument: one key (a str) or a tuple of keys
ByKey(k) == [tuple |-> FALSE, keys |-> <<k>>]
ByKeys(ks) == [tuple |-> TRUE, keys |-> ks]

\* the composite key of one record: the tuple of the stripped parts for a
\* tuple of keys, the stripped value for a single key
CompositeKey(item_data, group_by_key) ==
    IF group_by_key.tuple
    THEN [i \in 1..Len(group_by_key.keys) |-> StrStrip(Get(item_data, group_by_key.keys[i], "N/A"))]
    ELSE StrStrip(Get(item_data, group_by_key.keys[1], "N/A"))

\* the loop over insights_data: total_price and count per composite key
RECURSIVE Accumulate(_, _, _)
Accumulate(insights_data, group_by_key, averages_accumulator) ==
    IF insights_data = <<>> THEN averages_accumulator
    ELSE LET composite_key == CompositeKey(Head(insights_data), group_by_key)
             old == Get(averages_accumulator, composite_key, [total_price |-> 0, count |-> 0])
         IN Accumulate(Tail(insights_data), group_by_key,
                       Put(averages_accumulator, composite_key,
                           [total_price |-> old.total_price + Head(insights_data).price,
                            count |-> old.count + 1]))

\* round(total / count, 2) of a total kept in hundredths: the nearest
\* hundredth; a quotient that lies halfway between two hundredths goes to
\* the one its binary representation is nearer to (up when half_up)
Round2(total, count, half_up) ==
    LET q == total \div count
        r == total % count
    IN IF 2 * r < count THEN q
       ELSE IF 2 * r > count THEN q + 1
            ELSE IF half_up THEN q + 1 ELSE q

\* a variant that cuts the average off after the second decimal
calculate_average_prices_truncating(insights_data, group_by_key, half_ups) ==
    LET averages_accumulator == Accumulate(insights_data, group_by_key, EmptyDict)
    IN [key \in DOMAIN averages_accumulator |->
            [total_price |-> averages_accumulator[key].total_price,
             count |-> averages_accumulator[key].count,
             average |-> averages_accumulator[key].total_price \div averages_accumulator[key].count]]

\* calculate_average_prices; half_ups holds the keys whose halfway average
\* is rounded up
calculate_average_prices(insights_data, group_by_key, half_ups) ==
    LET averages_accumulator == Accumulate(insights_data, group_by_key, EmptyDict)
    IN [key \in DOMAIN averages_accumulator |->
            [total_price |-> averages_accumulator[key].total_price,
             count |-> averages_accumulator[key].count,
             average |-> Round2(averages_accumulator[key].total_price,
                                averages_accumulator[key].count, key \in half_ups)]]

(***************************************************************************)
(* handlers/read.py                                                        *)
(***************************************************************************)
view_entries_command(ud) ==
    Res(VIEW_AWAITING_MENU_CHOICE, EmptyDict, "How would you like to view entries?", "view_menu")

prompt_for_id_callback(ud) ==
    Res(VIEW_AWAITING_ID_INPUT, ud, "Please send the ID of the entry you want to view:", "")

handle_id_for_view(ud, text, sh, api_ok) ==
    LET found == find_row_by_id(sh, StrStrip(text), api_ok)
    IN Res(END, EmptyDict,
           IF found.values # <<>> THEN "Entry Details" ELSE "No entry found with ID", "post_action")

\* the page index a "view last" button carries
PageOf(data) ==
    LET part == LastPart(data, "") IN IF IsDigitString(part) THEN DigitsValue(part, 0) ELSE 0

\* a handler that goes on to slice the page of a worksheet without records
view_last_entries_without_empty_check(ud, data, sh, api_ok) ==
    IF ~api_ok
    THEN Res(END, ud, "An error occurred while fetching data.", "post_action")
    ELSE IF PageOf(data) * DEFAULT_ENTRIES_PER_PAGE_VIEW >= Len(sh)
         THEN Res(VIEW_PAGINATING_ENTRIES, ud, "alert: No more entries to display.", "")
         ELSE Res(VIEW_PAGINATING_ENTRIES, ud, "Displaying Entries", "pagination")

view_last_entries_callback(ud, data, sh, api_ok) ==
    LET current_page == PageOf(data)
        total_entries == Len(sh)
        start_index == current_page * DEFAULT_ENTRIES_PER_PAGE_VIEW
    IN IF ~api_ok
       THEN Res(END, ud, "An error occurred while fetching data.", "post_action")
       ELSE IF total_entries = 0
            THEN Res(END, ud, "The sheet has no data entries.", "post_action")
            ELSE IF start_index >= total_entries
                 THEN Res(VIEW_PAGINATING_ENTRIES, ud, "alert: No more entries to display.", "")
                 ELSE Res(VIEW_PAGINATING_ENTRIES, ud, "Displaying Entries", "pagination")

\* str(n) for a natural number n
RECURSIVE NatStr(_)
NatStr(n) ==
    IF n < 10 THEN SubSeq(DIGITS, n + 1, n + 1)
    ELSE NatStr(n \div 10) \o SubSeq(DIGITS, (n % 10) + 1, (n % 10) + 1)

\* data_rows[start:end] of Python: the elements with 0-based index start..end-1
\* that exist
Slice(l, start, end) ==
    SubSeq(l, start + 1, IF end < Len(l) THEN end ELSE Len(l))

\* list(reversed(l))
Reversed(l) == [i \in 1..Len(l) |-> l[Len(l) + 1 - i]]

\* a 'next' button also when the page shown ends with the last record
PageRenderingWithNextOnFullPage(data, sh) ==
    LET current_page == PageOf(data)
        data_rows == Reversed(sh)
        total_entries == Len(data_rows)
        per_page == DEFAULT_ENTRIES_PER_PAGE_VIEW
        start_index == current_page * per_page
        end_index == (current_page + 1) * per_page
        page_entries == Slice(data_rows, start_index, end_index)
    IN [page |-> current_page,
        entries |-> page_entries,
        entry_nums |-> [i \in 1..Len(page_entries) |-> total_entries - (start_index + i - 1)],
        nav_row |->
            (IF current_page > 0
             THEN <<[text |-> "Prev",
                     callback_data |-> CB_VIEW_LAST_N_PREFIX \o NatStr(current_page - 1)]>>
             ELSE <<>>)
            \o (IF end_index <= total_entries
                THEN <<[text |-> "Next",
                        callback_data |-> CB_VIEW_LAST_N_PREFIX \o NatStr(current_page + 1)]>>
                ELSE <<>>)]

\* what view_last_entries_callback renders when the page has entries: the
\* entries of the page, newest first, their entry numbers, and the row of
\* navigation buttons
PageRendering(data, sh) ==
    LET current_page == PageOf(data)
        data_rows == Reversed(sh)
        total_entries == Len(data_rows)
        per_page == DEFAULT_ENTRIES_PER_PAGE_VIEW
        start_index == current_page * per_page
        end_index == (current_page + 1) * per_page
        page_entries == Slice(data_rows, start_index, end_index)
    IN [page |-> current_page,
        entries |-> page_entries,
        entry_nums |-> [i \in 1..Len(page_entries) |-> total_entries - (start_index + i - 1)],
        nav_row |->
            (IF current_page > 0
             THEN <<[text |-> "Prev",
                     callback_data |-> CB_VIEW_LAST_N_PREFIX \o NatStr(current_page - 1)]>>
             ELSE <<>>)
            \o (IF end_index < total_entries
                THEN <<[text |-> "Next",
                        callback_data |-> CB_VIEW_LAST_N_PREFIX \o NatStr(current_page + 1)]>>
                ELSE <<>>)]

navigate_back_to_view_menu(ud) == view_entries_command(ud)

\* a cancel that edits the message without a keyboard
cancel_view_without_keyboard(ud) == Res(END, EmptyDict, "View operation canceled.", "")

cancel_view_callback(ud) == Res(END, EmptyDict, "View operation canceled.", "post_action")

(***************************************************************************)
(* handlers/update.py                                                      *)
(***************************************************************************)
start_update_entry(ud) ==
    Res(UPDATE_ASK_ID, ud, "Please enter the ID of the entry you wish to update:", "")

show_field_selection_for_update(ud) ==
    IF {"update_original_data", "update_entry_id"} \subseteq DOMAIN ud
    THEN Res(UPDATE_SELECT_FIELDS_TOGGLE, ud, "Select fields to update, then click 'Proceed'.",
             "field_checklist")
    ELSE Raise(ud, "KeyError")

\* a lookup that ends the dialog when the id is not found
ask_id_received_ending_when_not_found(ud, text, sh, api_ok) ==
    LET entry_id == StrStrip(text)
        found == find_row_by_id(sh, entry_id, api_ok)
    IN IF found.values = <<>>
       THEN Res(END, EmptyDict, "No entry found with ID.", "post_action")
       ELSE show_field_selection_for_update(
                ("update_entry_id" :> entry_id) @@ ("update_row_num" :> found.row_num)
                @@ ("update_original_data" :> ZipHeaders(found.values))
                @@ ("fields_to_update_selected_keys" :> <<>>)
                @@ ("new_values_for_update_map" :> EmptyDict) @@ ud)

ask_id_received(ud, text, sh, api_ok) ==
    LET entry_id == StrStrip(text)
        found == find_row_by_id(sh, entry_id, api_ok)
    IN IF found.values = <<>>
       THEN Res(UPDATE_ASK_ID, ud, "No entry found with ID. Please try again, or /cancel.", "")
       ELSE show_field_selection_for_update(
                ("update_entry_id" :> entry_id) @@ ("update_row_num" :> found.row_num)
                @@ ("update_original_data" :> ZipHeaders(found.values))
                @@ ("fields_to_update_selected_keys" :> <<>>)
                @@ ("new_values_for_update_map" :> EmptyDict) @@ ud)

toggle_field_selection_callback(ud, data) ==
    LET key == StrReplace(data, CB_UPDATE_FIELD_TOGGLE_PREFIX, "")
        has == "fields_to_update_selected_keys" \in DOMAIN ud
        selected == Get(ud, "fields_to_update_selected_keys", <<>>)
        toggled == IF InList(key, selected) THEN ListRemove(selected, key) ELSE Append(selected, key)
    IN show_field_selection_for_update(
            IF has THEN Put(ud, "fields_to_update_selected_keys", toggled) ELSE ud)

confirm_multiple_changes(ud) ==
    IF "new_values_for_update_map" \notin DOMAIN ud THEN Raise(ud, "KeyError")
    ELSE IF ud["new_values_for_update_map"] = EmptyDict
         THEN Res(END, EmptyDict, "No changes were made. Update canceled.", "post_action")
         ELSE IF "update_original_data" \notin DOMAIN ud THEN Raise(ud, "KeyError")
              ELSE Res(UPDATE_CONFIRM_MULTIPLE, ud, "Apply these updates?", "update_confirm")

ask_for_next_field_value(ud) ==
    LET queue == Get(ud, "update_fields_queue", <<>>)
    IN IF queue = <<>> THEN confirm_multiple_changes(ud)
       ELSE LET key == queue[1]
                ud1 == Put(ud, "current_field_being_updated_key", key)
            IN IF "update_original_data" \notin DOMAIN ud1 \/ key \notin DOMAIN UPDATABLE_FIELDS_MAP
               THEN Raise(ud1, "KeyError")
               ELSE Res(UPDATE_ENTER_MULTIPLE_VALUES, ud1, "new value for: " \o key,
                        IF key = "product" THEN "products"
                        ELSE IF key = "location" THEN "locations" ELSE "")

\* a queue in the order of the ticks
proceed_with_selected_fields_in_toggle_order(ud) ==
    LET selected_keys == Get(ud, "fields_to_update_selected_keys", <<>>)
    IN IF selected_keys = <<>>
       THEN Res(UPDATE_SELECT_FIELDS_TOGGLE, ud,
                "alert: Please select at least one field to update.", "")
       ELSE ask_for_next_field_value(Put(ud, "update_fields_queue", selected_keys))

proceed_with_selected_fields_callback(ud) ==
    LET selected_keys == Get(ud, "fields_to_update_selected_keys", <<>>)
        ordered == SelectSeq(UPDATABLE_FIELDS_DISPLAY_ORDER, LAMBDA k : InList(k, selected_keys))
    IN IF selected_keys = <<>>
       THEN Res(UPDATE_SELECT_FIELDS_TOGGLE, ud,
                "alert: Please select at least one field to update.", "")
       ELSE ask_for_next_field_value(Put(ud, "update_fields_queue", ordered))

\* the two statements every value handler ends with before asking for the
\* next field: record the value under the field's column name, pop the queue
RecordNewValue(ud, field, new_value) ==
    IF "new_values_for_update_map" \notin DOMAIN ud THEN Raise(ud, "KeyError")
    ELSE LET ud1 == Put(ud, "new_values_for_update_map",
                        Put(ud["new_values_for_update_map"], field, new_value))
         IN IF "update_fields_queue" \notin DOMAIN ud1 THEN Raise(ud1, "KeyError")
            ELSE IF ud1["update_fields_queue"] = <<>> THEN Raise(ud1, "IndexError")
                 ELSE ask_for_next_field_value(
                        Put(ud1, "update_fields_queue", Tail(ud1["update_fields_queue"])))

new_value_for_product_or_location_callback(ud, data) ==
    IF "current_field_being_updated_key" \notin DOMAIN ud THEN Raise(ud, "KeyError")
    ELSE LET key == ud["current_field_being_updated_key"]
             prefix == IF key = "product" THEN CB_UPDATE_NEWVAL_PRODUCT_PREFIX
                       ELSE CB_UPDATE_NEWVAL_LOCATION_PREFIX
             slug == StrReplace(data, prefix, "")
             new_value == clean_and_format_for_display(slug)
         IN RecordNewValue(ud, UPDATABLE_FIELDS_MAP[key], Str(new_value))

new_value_for_text_field_received(ud, text) ==
    IF "current_field_being_updated_key" \notin DOMAIN ud THEN Raise(ud, "KeyError")
    ELSE LET key == ud["current_field_being_updated_key"]
             p == ParseFloat(text)
         IN IF key = "price" /\ (~p.ok \/ p.val <= 0)
            THEN Res(UPDATE_ENTER_MULTIPLE_VALUES, ud,
                     "Invalid price. Please enter a positive number.", "")
            ELSE RecordNewValue(ud, UPDATABLE_FIELDS_MAP[key],
                                IF key = "price" THEN Num(p.val) ELSE Str(text))

skip_remark_update_command(ud) ==
    IF Get(ud, "current_field_being_updated_key", "") = "remark"
    THEN RecordNewValue(ud, REMARK_FIELD, Str(""))
    ELSE Res(UPDATE_ENTER_MULTIPLE_VALUES, ud, "This command is only for the remark field.", "")

cancel_update_operation_callback(ud) ==
    Res(END, EmptyDict, "Update operation has been canceled.", "post_action")

(***************************************************************************)
(* handlers/delete.py                                                      *)
(***************************************************************************)
start_delete_entry(ud) ==
    Res(DELETE_ASK_ID, ud, "Please enter the ID of the entry you want to delete:", "")

ask_id_received_for_delete(ud, text, sh, api_ok) ==
    LET entry_id == StrStrip(text)
        found == find_row_by_id(sh, entry_id, api_ok)
    IN IF found.values = <<>>
       THEN Res(DELETE_ASK_ID, ud, "No entry found with ID. Please try again or /cancel.", "")
       ELSE Res(DELETE_CONFIRM,
                Put(Put(ud, "delete_entry_id", entry_id), "delete_row_num", found.row_num),
                "ARE YOU SURE you want to delete this entry?", "delete_confirm")

(***************************************************************************)
(* handlers/insights.py                                                    *)
(***************************************************************************)
start_insights_menu(ud) ==
    Res(INSIGHTS_MENU_DISPLAYED, EmptyDict, "Price Insights Menu", "insights_menu")

insights_menu_callback(ud, data, sh, api_ok) ==
    LET action == StrReplace(data, CB_INSIGHTS_PREFIX, "")
        insights_data == IF api_ok THEN SelectSeq(sh, ValidForInsights) ELSE <<>>
    IN IF action = "cancel"
       THEN Res(END, EmptyDict, "Insights operation canceled.", "post_action")
       ELSE IF insights_data = <<>>
            THEN Res(END, EmptyDict, "No data available for insights.", "post_action")
            ELSE IF action \in {"by_product", "by_location", "by_prod_loc"}
                 THEN Res(END, EmptyDict, "Average Price Insights", "post_action")
                 ELSE Res(INSIGHTS_MENU_DISPLAYED, ud, "Invalid insight selection.", "")

(***************************************************************************)
(* The state after construction: no conversation, empty user_data, and    *)
(* the worksheet connect_to_gsheet opened, which keeps the rows of earlier *)
(* runs: the header row and one well-formed record.                        *)
(***************************************************************************)
SeedRow ==
    RowOf((ID_FIELD :> Str(IdText(0))) @@ (TIMESTAMP_FIELD :> Time(0)) @@ (EMAIL_FIELD :> Str("u1"))
          @@ (PRODUCT_FIELD :> Str(PRODUCTS[1])) @@ (PRICE_FIELD :> Num(1000))
          @@ (LOCATION_FIELD :> Str(LOCATIONS[1])) @@ (REMARK_FIELD :> Str("")))

NoEvent == [user |-> "", nav |-> "", d |-> "", h |-> "", ret |-> END, exc |-> "",
            out |-> "", kb |-> ""]

NoPlan == [product |-> "", price |-> "", location |-> "", remark |-> ""]

\* no update: the value of "running" when no handler is running
NoUpdate == [user |-> "", call |-> ""]

\* the application after start: nothing queued, nothing running
NoFetcher == [update_queue |-> <<>>, running |-> NoUpdate, handled |-> <<>>]

\* no page of entries was rendered
NoPage == [page |-> 0, entries |-> <<>>, entry_nums |-> <<>>, nav_row |-> <<>>]

\* no call of calculate_average_prices was made
NoInsights == [data |-> <<>>, key |-> [tuple |-> FALSE, keys |-> <<>>], result |-> <<>>, done |-> FALSE]

\* connect_and_initialize_sheet succeeded: GSHEET_CONNECTED is True and
\* worksheet is the opened worksheet
Connected == [connected |-> TRUE, worksheet |-> TRUE]

\* what a failed connect_and_initialize_sheet leaves: GSHEET_CONNECTED False,
\* worksheet None, or the worksheet it had opened before it failed
NotConnected == {[connected |-> FALSE, worksheet |-> w] : w \in BOOLEAN}

\* the guard of the gsheet_utils wrappers (`not GSHEET_CONNECTED or not
\* worksheet`) passes and the API call they make succeeds
WrapperOk(api_ok) == gsheet.connected /\ gsheet.worksheet /\ api_ok

\* a method of gsheet_utils.worksheet called directly answers: worksheet is
\* not None and the API call succeeds
WorksheetOk(api_ok) == gsheet.worksheet /\ api_ok

Init ==
    /\ conv = [u \in Users |-> EmptyDict]
    /\ user_data = [u \in Users |-> EmptyDict]
    /\ sheet = <<SeedRow>>
    /\ next_id = 1
    /\ clock = 0
    /\ last = NoEvent
    /\ plan = NoPlan
    /\ gsheet = Connected
    /\ insights = NoInsights
    /\ fetcher = NoFetcher
    /\ rendered = NoPage

\* the events some matcher registered with handler h accepts
MatchersOf(d) ==
    LET ch == ConversationHandlers[d]
    IN SeqToSet(ch.entry_points) \cup SeqToSet(ch.fallbacks)
       \cup UNION {SeqToSet(ch.states[st]) : st \in DOMAIN ch.states}

AllMatchers == SeqToSet(GlobalHandlers) \cup UNION {MatchersOf(d) : d \in Dialogs}

HandlerNames == {m.h : m \in AllMatchers}

HandlerEvents == [h \in HandlerNames |-> {e \in Events : \E m \in AllMatchers : m.h = h /\ Matches(m, e)}]

(***************************************************************************)
(* One action per handler.                                                 *)
(***************************************************************************)
StartNewEntry(u) ==
    \E e \in HandlerEvents["start_new_entry"] :
        /\ Routed(u, e, "create", "start_new_entry")
        /\ ApplyLocal(u, e, "create", "start_new_entry",
                      start_new_entry(user_data[u]))

HandleEntryTypeSelection(u) ==
    \E e \in HandlerEvents["handle_entry_type_selection"] :
        /\ Routed(u, e, "create", "handle_entry_type_selection")
        /\ ApplyLocal(u, e, "create", "handle_entry_type_selection",
                      handle_entry_type_selection(user_data[u], e.data))

BatchCommonLocationSelection(u) ==
    \E e \in HandlerEvents["batch_common_location_selection"] :
        /\ Routed(u, e, "create", "batch_common_location_selection")
        /\ ApplyLocal(u, e, "create", "batch_common_location_selection",
                      batch_common_location_selection(user_data[u], e.data))

BatchCommonRemarkEntry(u) ==
    \E e \in HandlerEvents["batch_common_remark_entry"] :
        /\ Routed(u, e, "create", "batch_common_remark_entry")
        /\ ApplyLocal(u, e, "create", "batch_common_remark_entry",
                      batch_common_remark_entry(user_data[u], e.text))

BatchSkipCommonRemark(u) ==
    \E e \in HandlerEvents["batch_skip_common_remark"] :
        /\ Routed(u, e, "create", "batch_skip_common_remark")
        /\ ApplyLocal(u, e, "create", "batch_skip_common_remark",
                      batch_skip_common_remark(user_data[u]))

ToggleBatchProductSelection(u) ==
    \E e \in HandlerEvents["toggle_batch_product_selection"] :
        /\ Routed(u, e, "create", "toggle_batch_product_selection")
        /\ ApplyLocal(u, e, "create", "toggle_batch_product_selection",
                      toggle_batch_product_selection(user_data[u], e.data))

BatchProductsSelectionDone(u) ==
    \E e \in HandlerEvents["batch_products_selection_done"] :
        /\ Routed(u, e, "create", "batch_products_selection_done")
        /\ ApplyLocal(u, e, "create", "batch_products_selection_done",
                      batch_products_selection_done(user_data[u]))

BatchPriceEntry(u) ==
    \E e \in HandlerEvents["batch_price_entry"] :
        /\ Routed(u, e, "create", "batch_price_entry")
        /\ ApplyLocal(u, e, "create", "batch_price_entry",
                      batch_price_entry(user_data[u], e.text))

SingleEntryProductSelection(u) ==
    \E e \in HandlerEvents["single_entry_product_selection"] :
        /\ Routed(u, e, "create", "single_entry_product_selection")
        /\ ApplyLocal(u, e, "create", "single_entry_product_selection",
                      single_entry_product_selection(user_data[u], e.data))

SingleEntryPriceEntry(u) ==
    \E e \in HandlerEvents["single_entry_price_entry"] :
        /\ Routed(u, e, "create", "single_entry_price_entry")
        /\ ApplyLocal(u, e, "create", "single_entry_price_entry",
                      single_entry_price_entry(user_data[u], e.text))

SingleEntryLocationSelection(u) ==
    \E e \in HandlerEvents["single_entry_location_selection"] :
        /\ Routed(u, e, "create", "single_entry_location_selection")
        /\ ApplyLocal(u, e, "create", "single_entry_location_selection",
                      single_entry_location_selection(user_data[u], e.data))

SingleEntryRemarkEntry(u) ==
    \E e \in HandlerEvents["single_entry_remark_entry"] :
        /\ Routed(u, e, "create", "single_entry_remark_entry")
        /\ ApplyLocal(u, e, "create", "single_entry_remark_entry",
                      single_entry_remark_entry(user_data[u], e.text))

SingleSkipRemarkEntry(u) ==
    \E e \in HandlerEvents["single_skip_remark_entry"] :
        /\ Routed(u, e, "create", "single_skip_remark_entry")
        /\ ApplyLocal(u, e, "create", "single_skip_remark_entry",
                      single_skip_remark_entry(user_data[u]))

\* query.from_user.username, or the id as a string
UserIdentifier(u) == Str(u)

\* submit_single_entry_data: one row from current_entry, appended; the
\* dialog ends and user_data is cleared whether or not the append succeeded
SubmitSingleEntryData(u) ==
    \E e \in HandlerEvents["submit_single_entry_data"], api \in BOOLEAN :
        LET api_ok == WrapperOk(api) IN
        /\ Routed(u, e, "create", "submit_single_entry_data")
        /\ api_ok => next_id <= MaxIds
        /\ LET entry_data == _get_current_entry_data(user_data[u])["current_entry"]
               row_data == (ID_FIELD :> Str(IdText(next_id)))
                           @@ (TIMESTAMP_FIELD :> Time(clock + 1))
                           @@ (EMAIL_FIELD :> UserIdentifier(u))
                           @@ (PRODUCT_FIELD :> Get(entry_data, "product", None))
                           @@ (PRICE_FIELD :> Get(entry_data, "price", None))
                           @@ (LOCATION_FIELD :> Get(entry_data, "location", None))
                           @@ (REMARK_FIELD :> Get(entry_data, "remark", Str("")))
           IN Apply(u, e, "create", "submit_single_entry_data",
                    Res(END, EmptyDict,
                        IF api_ok THEN "Entry submitted successfully." ELSE "Entry submission failed.",
                        "post_action"),
                    IF api_ok THEN AppendRows(sheet, <<RowOf(row_data)>>) ELSE sheet,
                    IF api_ok THEN next_id + 1 ELSE next_id,
                    IF api_ok THEN clock + 1 ELSE clock)

\* a submit that generates one id per call instead of one per row
SubmitBatchDataWithOneId(u) ==
    \E e \in HandlerEvents["submit_batch_data"], api \in BOOLEAN :
        LET api_ok == WrapperOk(api) IN
        /\ Routed(u, e, "create", "submit_batch_data")
        /\ LET batch_entries_data == Get(user_data[u], "batch_entries", <<>>)
               n == Len(batch_entries_data)
               rows_to_append ==
                   [i \in 1..n |->
                       RowOf((ID_FIELD :> Str(IdText(next_id)))
                             @@ (TIMESTAMP_FIELD :> Time(clock + 1))
                             @@ (EMAIL_FIELD :> UserIdentifier(u))
                             @@ (PRODUCT_FIELD :> batch_entries_data[i].product)
                             @@ (PRICE_FIELD :> batch_entries_data[i].price)
                             @@ (LOCATION_FIELD :> batch_entries_data[i].location)
                             @@ (REMARK_FIELD :> batch_entries_data[i].remark))]
               written == api_ok /\ n > 0
           IN /\ written => next_id + n - 1 <= MaxIds
              /\ Apply(u, e, "create", "submit_batch_data",
                       Res(END, EmptyDict,
                           IF api_ok THEN "Batch submitted successfully."
                           ELSE "Batch submission failed.",
                           "post_action"),
                       IF written THEN AppendRows(sheet, rows_to_append) ELSE sheet,
                       IF written THEN next_id + n ELSE next_id,
                       IF written THEN clock + 1 ELSE clock)

\* submit_batch_data: one row per batch entry, appended in one call
SubmitBatchData(u) ==
    \E e \in HandlerEvents["submit_batch_data"], api \in BOOLEAN :
        LET api_ok == WrapperOk(api) IN
        /\ Routed(u, e, "create", "submit_batch_data")
        /\ LET batch_entries_data == Get(user_data[u], "batch_entries", <<>>)
               n == Len(batch_entries_data)
               rows_to_append ==
                   [i \in 1..n |->
                       RowOf((ID_FIELD :> Str(IdText(next_id + i - 1)))
                             @@ (TIMESTAMP_FIELD :> Time(clock + 1))
                             @@ (EMAIL_FIELD :> UserIdentifier(u))
                             @@ (PRODUCT_FIELD :> batch_entries_data[i].product)
                             @@ (PRICE_FIELD :> batch_entries_data[i].price)
                             @@ (LOCATION_FIELD :> batch_entries_data[i].location)
                             @@ (REMARK_FIELD :> batch_entries_data[i].remark))]
               written == api_ok /\ n > 0
           IN /\ written => next_id + n - 1 <= MaxIds
              /\ Apply(u, e, "create", "submit_batch_data",
                       Res(END, EmptyDict,
                           IF api_ok THEN "Batch submitted successfully."
                           ELSE "Batch submission failed.",
                           "post_action"),
                       IF written THEN AppendRows(sheet, rows_to_append) ELSE sheet,
                       IF written THEN next_id + n ELSE next_id,
                       IF written THEN clock + 1 ELSE clock)

CancelConversation(u) ==
    \E e \in HandlerEvents["cancel_conversation"], d \in Dialogs :
        /\ Routed(u, e, d, "cancel_conversation")
        /\ ApplyLocal(u, e, d, "cancel_conversation", cancel_conversation(user_data[u]))

PostConversationCallbackHandler(u) ==
    \E e \in HandlerEvents["post_conversation_callback_handler"], d \in Dialogs :
        /\ Routed(u, e, d, "post_conversation_callback_handler")
        /\ ApplyLocal(u, e, d, "post_conversation_callback_handler",
                      post_conversation_callback_handler(user_data[u], e.data))

ViewEntriesCommand(u) ==
    \E e \in HandlerEvents["view_entries_command"] :
        /\ Routed(u, e, "read", "view_entries_command")
        /\ ApplyLocal(u, e, "read", "view_entries_command",
                      view_entries_command(user_data[u]))

PromptForIdCallback(u) ==
    \E e \in HandlerEvents["prompt_for_id_callback"] :
        /\ Routed(u, e, "read", "prompt_for_id_callback")
        /\ ApplyLocal(u, e, "read", "prompt_for_id_callback",
                      prompt_for_id_callback(user_data[u]))

HandleIdForView(u) ==
    \E e \in HandlerEvents["handle_id_for_view"], api \in BOOLEAN :
        LET api_ok == WrapperOk(api) IN
        /\ Routed(u, e, "read", "handle_id_for_view")
        /\ ApplyLocal(u, e, "read", "handle_id_for_view",
                      handle_id_for_view(user_data[u], e.text, sheet, api_ok))

ViewLastEntriesCallback(u) ==
    \E e \in HandlerEvents["view_last_entries_callback"], api \in BOOLEAN :
        LET api_ok == WorksheetOk(api) IN
        /\ Routed(u, e, "read", "view_last_entries_callback")
        /\ ApplyLocal(u, e, "read", "view_last_entries_callback",
                      view_last_entries_callback(user_data[u], e.data, sheet, api_ok))

NavigateBackToViewMenu(u) ==
    \E e \in HandlerEvents["navigate_back_to_view_menu"] :
        /\ Routed(u, e, "read", "navigate_back_to_view_menu")
        /\ ApplyLocal(u, e, "read", "navigate_back_to_view_menu",
                      navigate_back_to_view_menu(user_data[u]))

CancelViewCallback(u) ==
    \E e \in HandlerEvents["cancel_view_callback"] :
        /\ Routed(u, e, "read", "cancel_view_callback")
        /\ ApplyLocal(u, e, "read", "cancel_view_callback",
                      cancel_view_callback(user_data[u]))

StartUpdateEntry(u) ==
    \E e \in HandlerEvents["start_update_entry"] :
        /\ Routed(u, e, "update", "start_update_entry")
        /\ ApplyLocal(u, e, "update", "start_update_entry",
                      start_update_entry(user_data[u]))

AskIdReceived(u) ==
    \E e \in HandlerEvents["ask_id_received"], api \in BOOLEAN :
        LET api_ok == WrapperOk(api) IN
        /\ Routed(u, e, "update", "ask_id_received")
        /\ ApplyLocal(u, e, "update", "ask_id_received",
                      ask_id_received(user_data[u], e.text, sheet, api_ok))

\* a user who has ticked MaxSelected fields unticks one before ticking another
ToggleFieldSelectionCallback(u) ==
    \E e \in HandlerEvents["toggle_field_selection_callback"] :
        /\ Routed(u, e, "update", "toggle_field_selection_callback")
        /\ LET selected == Get(user_data[u], "fields_to_update_selected_keys", <<>>)
           IN \/ Len(selected) < MaxSelected
              \/ InList(StrReplace(e.data, CB_UPDATE_FIELD_TOGGLE_PREFIX, ""), selected)
        /\ ApplyLocal(u, e, "update", "toggle_field_selection_callback",
                      toggle_field_selection_callback(user_data[u], e.data))

ProceedWithSelectedFieldsCallback(u) ==
    \E e \in HandlerEvents["proceed_with_selected_fields_callback"] :
        /\ Routed(u, e, "update", "proceed_with_selected_fields_callback")
        /\ ApplyLocal(u, e, "update", "proceed_with_selected_fields_callback",
                      proceed_with_selected_fields_callback(user_data[u]))

NewValueForProductOrLocationCallback(u) ==
    \E e \in HandlerEvents["new_value_for_product_or_location_callback"] :
        /\ Routed(u, e, "update", "new_value_for_product_or_location_callback")
        /\ ApplyLocal(u, e, "update", "new_value_for_product_or_location_callback",
                      new_value_for_product_or_location_callback(user_data[u], e.data))

NewValueForTextFieldReceived(u) ==
    \E e \in HandlerEvents["new_value_for_text_field_received"] :
        /\ Routed(u, e, "update", "new_value_for_text_field_received")
        /\ ApplyLocal(u, e, "update", "new_value_for_text_field_received",
                      new_value_for_text_field_received(user_data[u], e.text))

SkipRemarkUpdateCommand(u) ==
    \E e \in HandlerEvents["skip_remark_update_command"] :
        /\ Routed(u, e, "update", "skip_remark_update_command")
        /\ ApplyLocal(u, e, "update", "skip_remark_update_command",
                      skip_remark_update_command(user_data[u]))

CancelUpdateOperationCallback(u) ==
    \E e \in HandlerEvents["cancel_update_operation_callback"] :
        /\ Routed(u, e, "update", "cancel_update_operation_callback")
        /\ ApplyLocal(u, e, "update", "cancel_update_operation_callback",
                      cancel_update_operation_callback(user_data[u]))

\* a batch that also rewrites the cells of the fields that were not selected
\* with the values read at lookup
update_ops_whole_record(ud, now) ==
    LET row_num == ud["update_row_num"]
        new_values == ud["new_values_for_update_map"]
        original == Get(ud, "update_original_data", EmptyDict)
        fields == SelectSeq(HEADERS, LAMBDA f : f \in DOMAIN new_values \cup DOMAIN original)
    IN [i \in 1..Len(fields) |->
            [row |-> row_num, col |-> ColOf(fields[i]),
             value |-> IF fields[i] \in DOMAIN new_values THEN new_values[fields[i]]
                       ELSE original[fields[i]]]]
       \o <<[row |-> row_num, col |-> ColOf(TIMESTAMP_FIELD), value |-> Time(now)]>>

\* the update_ops list execute_multiple_updates builds: one single-cell range
\* of row update_row_num per entry of the new-values map whose field is a
\* column of HEADERS, then the timestamp cell of that row
update_ops(ud, now) ==
    LET row_num == ud["update_row_num"]
        new_values == ud["new_values_for_update_map"]
        fields == SelectSeq(HEADERS, LAMBDA f : f \in DOMAIN new_values)
    IN [i \in 1..Len(fields) |->
            [row |-> row_num, col |-> ColOf(fields[i]), value |-> new_values[fields[i]]]]
       \o <<[row |-> row_num, col |-> ColOf(TIMESTAMP_FIELD), value |-> Time(now)]>>

\* the cells a list of single-cell ranges writes: column -> value, a later
\* range of the list winning over an earlier one for the same cell
WritesOf(ops) ==
    [c \in {ops[i].col : i \in 1..Len(ops)} |->
        ops[CHOOSE i \in 1..Len(ops) :
                ops[i].col = c /\ \A j \in (i + 1)..Len(ops) : ops[j].col # c].value]

\* a commit that refuses to write when the record is no longer what the
\* lookup returned
execute_multiple_updates_checking_original(u, e, api) ==
    LET ud == user_data[u]
        h == "execute_multiple_updates"
        i == ud["update_row_num"] - 1
    IN /\ {"update_row_num", "new_values_for_update_map", "update_original_data",
            "update_entry_id"} \subseteq DOMAIN ud
       /\ api
       /\ IF i \in 1..Len(sheet) /\ ZipHeaders(TrimCells(sheet[i])) = ud["update_original_data"]
          THEN Apply(u, e, "update", h,
                     Res(END, EmptyDict, "Entry updated successfully.", "post_action"),
                     BatchUpdate(sheet, ud["update_row_num"], WritesOf(update_ops(ud, clock + 1))),
                     next_id, clock + 1)
          ELSE ApplyLocal(u, e, "update", h,
                          Res(END, EmptyDict, "Error! The entry has changed.", "post_action"))

\* execute_multiple_updates: one cell write per entry of the new-values map
\* plus the timestamp cell, all on the row number stored at lookup; an API
\* error escapes the handler (worksheet.batch_update is called unguarded)
execute_multiple_updates(u, e, api) ==
    LET ud == user_data[u]
        h == "execute_multiple_updates"
    IN IF ~({"update_row_num", "new_values_for_update_map"} \subseteq DOMAIN ud)
       THEN api /\ ApplyLocal(u, e, "update", h, Raise(ud, "KeyError"))
       ELSE IF ~gsheet.worksheet
            THEN api /\ ApplyLocal(u, e, "update", h, Raise(ud, "AttributeError"))
       ELSE IF ~api THEN ApplyLocal(u, e, "update", h, Raise(ud, "APIError"))
            ELSE LET writes == WritesOf(update_ops(ud, clock + 1))
                 IN Apply(u, e, "update", h,
                             IF "update_entry_id" \in DOMAIN ud
                             THEN Res(END, EmptyDict, "Entry updated successfully.",
                                      "post_action")
                             ELSE Raise(ud, "KeyError"),
                             BatchUpdate(sheet, ud["update_row_num"], writes),
                             next_id, clock + 1)

ExecuteMultipleUpdates(u) ==
    \E e \in HandlerEvents["execute_multiple_updates"], api \in BOOLEAN :
        /\ Routed(u, e, "update", "execute_multiple_updates")
        /\ execute_multiple_updates(u, e, api)

StartDeleteEntry(u) ==
    \E e \in HandlerEvents["start_delete_entry"] :
        /\ Routed(u, e, "delete", "start_delete_entry")
        /\ ApplyLocal(u, e, "delete", "start_delete_entry",
                      start_delete_entry(user_data[u]))

AskIdReceivedForDelete(u) ==
    \E e \in HandlerEvents["ask_id_received_for_delete"], api \in BOOLEAN :
        LET api_ok == WrapperOk(api) IN
        /\ Routed(u, e, "delete", "ask_id_received_for_delete")
        /\ ApplyLocal(u, e, "delete", "ask_id_received_for_delete",
                      ask_id_received_for_delete(user_data[u], e.text, sheet, api_ok))

\* confirm_delete_callback: on "yes" the row number stored at lookup is
\* deleted; the dialog ends and user_data is cleared in every branch
confirm_delete_callback(u, e, api) ==
    LET ud == user_data[u]
        h == "confirm_delete_callback"
        api_ok == WrapperOk(api)
    IN IF e.data # CB_DELETE_CONFIRM_YES
       THEN api /\ ApplyLocal(u, e, "delete", h,
                                 Res(END, EmptyDict, "Deletion canceled.", "post_action"))
       ELSE IF ~({"delete_row_num", "delete_entry_id"} \subseteq DOMAIN ud)
            THEN api /\ ApplyLocal(u, e, "delete", h, Raise(ud, "KeyError"))
            ELSE IF ~api_ok
                 THEN ApplyLocal(u, e, "delete", h,
                                 Res(END, EmptyDict, "Error deleting entry from Google Sheet.",
                                     "post_action"))
                 ELSE Apply(u, e, "delete", h,
                               Res(END, EmptyDict, "Entry has been deleted.", "post_action"),
                               DeleteRow(sheet, ud["delete_row_num"]), next_id, clock + 1)

\* a confirm_delete_callback that deletes the row whichever button of the
\* confirmation keyboard was pressed
ConfirmDeleteIgnoringAnswer(u) ==
    \E e \in HandlerEvents["confirm_delete_callback"] :
        /\ Routed(u, e, "delete", "confirm_delete_callback")
        /\ "delete_row_num" \in DOMAIN user_data[u]
        /\ Apply(u, e, "delete", "confirm_delete_callback",
                 Res(END, EmptyDict,
                     IF e.data = CB_DELETE_CONFIRM_YES THEN "Entry has been deleted."
                     ELSE "Deletion canceled.",
                     "post_action"),
                 DeleteRow(sheet, user_data[u]["delete_row_num"]), next_id, clock + 1)

ConfirmDeleteCallback(u) ==
    \E e \in HandlerEvents["confirm_delete_callback"], api \in BOOLEAN :
        /\ Routed(u, e, "delete", "confirm_delete_callback")
        /\ confirm_delete_callback(u, e, api)

StartInsightsMenu(u) ==
    \E e \in HandlerEvents["start_insights_menu"] :
        /\ Routed(u, e, "insights", "start_insights_menu")
        /\ ApplyLocal(u, e, "insights", "start_insights_menu",
                      start_insights_menu(user_data[u]))

InsightsMenuCallback(u) ==
    \E e \in HandlerEvents["insights_menu_callback"], api \in BOOLEAN :
        LET api_ok == WrapperOk(api) IN
        /\ Routed(u, e, "insights", "insights_menu_callback")
        /\ ApplyLocal(u, e, "insights", "insights_menu_callback",
                      insights_menu_callback(user_data[u], e.data, sheet, api_ok))

\* the handlers bot.py registers outside the dialogs; they return nothing
GenericStartCommand(u) ==
    \E e \in HandlerEvents["generic_start_command"] :
        /\ Routed(u, e, "", "generic_start_command")
        /\ ApplyLocal(u, e, "", "generic_start_command",
                      main_menu_command_simple(user_data[u]))

MainMenuCommandSimple(u) ==
    \E e \in HandlerEvents["main_menu_command_simple"] :
        /\ Routed(u, e, "", "main_menu_command_simple")
        /\ ApplyLocal(u, e, "", "main_menu_command_simple",
                      main_menu_command_simple(user_data[u]))

StartMenuCallback(u) ==
    \E e \in HandlerEvents["start_menu_callback"] :
        /\ Routed(u, e, "", "start_menu_callback")
        /\ ApplyLocal(u, e, "", "start_menu_callback",
                      main_menu_command_simple(user_data[u]))

\* an update no handler accepts is dropped
Dropped(u) ==
    \E e \in Events :
        /\ Routed(u, e, "", "")
        /\ UNCHANGED vars

Step(u) ==
    \/ StartNewEntry(u)
    \/ HandleEntryTypeSelection(u)
    \/ BatchCommonLocationSelection(u)
    \/ BatchCommonRemarkEntry(u)
    \/ BatchSkipCommonRemark(u)
    \/ ToggleBatchProductSelection(u)
    \/ BatchProductsSelectionDone(u)
    \/ BatchPriceEntry(u)
    \/ SubmitBatchData(u)
    \/ SingleEntryProductSelection(u)
    \/ SingleEntryPriceEntry(u)
    \/ SingleEntryLocationSelection(u)
    \/ SingleEntryRemarkEntry(u)
    \/ SingleSkipRemarkEntry(u)
    \/ SubmitSingleEntryData(u)
    \/ CancelConversation(u)
    \/ PostConversationCallbackHandler(u)
    \/ ViewEntriesCommand(u)
    \/ PromptForIdCallback(u)
    \/ HandleIdForView(u)
    \/ ViewLastEntriesCallback(u)
    \/ NavigateBackToViewMenu(u)
    \/ CancelViewCallback(u)
    \/ StartUpdateEntry(u)
    \/ AskIdReceived(u)
    \/ ToggleFieldSelectionCallback(u)
    \/ ProceedWithSelectedFieldsCallback(u)
    \/ NewValueForProductOrLocationCallback(u)
    \/ NewValueForTextFieldReceived(u)
    \/ SkipRemarkUpdateCommand(u)
    \/ ExecuteMultipleUpdates(u)
    \/ CancelUpdateOperationCallback(u)
    \/ StartDeleteEntry(u)
    \/ AskIdReceivedForDelete(u)
    \/ ConfirmDeleteCallback(u)
    \/ StartInsightsMenu(u)
    \/ InsightsMenuCallback(u)
    \/ GenericStartCommand(u)
    \/ MainMenuCommandSimple(u)
    \/ StartMenuCallback(u)
    \/ Dropped(u)

\* one user talks to the bot
Next == Step("u1")

Spec == Init /\ [][Next]_vars

(***************************************************************************)
(* The bot when connect_and_initialize_sheet failed at start-up: main()    *)
(* logs the failure and goes on to poll for updates.                       *)
(***************************************************************************)
InitNotConnected ==
    /\ conv = [u \in Users |-> EmptyDict]
    /\ user_data = [u \in Users |-> EmptyDict]
    /\ sheet = <<SeedRow>>
    /\ next_id = 1
    /\ clock = 0
    /\ last = NoEvent
    /\ plan = NoPlan
    /\ gsheet \in NotConnected
    /\ insights = NoInsights
    /\ fetcher = NoFetcher
    /\ rendered = NoPage

\* the handlers of the states that only a successful id lookup leads to
\* (field selection, new values and confirmation of an update, confirmation
\* of a delete) are never reached when no lookup succeeds
StepNotConnected(u) ==
    \/ StartNewEntry(u)
    \/ HandleEntryTypeSelection(u)
    \/ BatchCommonLocationSelection(u)
    \/ BatchCommonRemarkEntry(u)
    \/ BatchSkipCommonRemark(u)
    \/ ToggleBatchProductSelection(u)
    \/ BatchProductsSelectionDone(u)
    \/ BatchPriceEntry(u)
    \/ SubmitBatchData(u)
    \/ SingleEntryProductSelection(u)
    \/ SingleEntryPriceEntry(u)
    \/ SingleEntryLocationSelection(u)
    \/ SingleEntryRemarkEntry(u)
    \/ SingleSkipRemarkEntry(u)
    \/ SubmitSingleEntryData(u)
    \/ CancelConversation(u)
    \/ PostConversationCallbackHandler(u)
    \/ ViewEntriesCommand(u)
    \/ PromptForIdCallback(u)
    \/ HandleIdForView(u)
    \/ ViewLastEntriesCallback(u)
    \/ NavigateBackToViewMenu(u)
    \/ CancelViewCallback(u)
    \/ StartUpdateEntry(u)
    \/ AskIdReceived(u)
    \/ StartDeleteEntry(u)
    \/ AskIdReceivedForDelete(u)
    \/ StartInsightsMenu(u)
    \/ InsightsMenuCallback(u)
    \/ GenericStartCommand(u)
    \/ MainMenuCommandSimple(u)
    \/ StartMenuCallback(u)
    \/ Dropped(u)

NextNotConnected == StepNotConnected("u1")

SpecNotConnected == InitNotConnected /\ [][NextNotConnected]_vars

(***************************************************************************)
(* The read dialog over worksheets of several sizes: no record, one        *)
(* record, and one record more than a page of "view last" holds.  Two      *)
(* users send the events of the read dialog, /cancel and the navigation    *)
(* buttons.                                                                *)
(***************************************************************************)
\* n well-formed records with ids id0, id1, ...
SheetOfLen(n) == [i \in 1..n |-> [SeedRow EXCEPT ![ColOf(ID_FIELD)] = Str(IdText(i - 1))]]

StoreSizes == {0, 1, DEFAULT_ENTRIES_PER_PAGE_VIEW + 1}

InitRead ==
    /\ conv = [u \in Users |-> EmptyDict]
    /\ user_data = [u \in Users |-> EmptyDict]
    /\ sheet \in {SheetOfLen(n) : n \in StoreSizes}
    /\ next_id = 1
    /\ clock = 0
    /\ last = NoEvent
    /\ plan = NoPlan
    /\ gsheet = Connected
    /\ insights = NoInsights
    /\ fetcher = NoFetcher
    /\ rendered = NoPage

StepRead(u) ==
    \/ ViewEntriesCommand(u)
    \/ PromptForIdCallback(u)
    \/ HandleIdForView(u)
    \/ ViewLastEntriesCallback(u)
    \/ NavigateBackToViewMenu(u)
    \/ CancelViewCallback(u)
    \/ CancelConversation(u)
    \/ PostConversationCallbackHandler(u)

NextRead == \E u \in Users : StepRead(u)

SpecRead == InitRead /\ [][NextRead]_vars

(***************************************************************************)
(* calculate_average_prices on its own: any list of up to MaxRecords       *)
(* cleaned records (what get_all_data_for_insights returns: a cleaned      *)
(* product, a cleaned location and a price > 0, kept in hundredths) and    *)
(* each of the three grouping keys insights_menu_callback passes.          *)
(***************************************************************************)
MaxRecords == 3

CleanedProducts == {"Tomato", "Red Onion"}
CleanedLocations == {"Bole", "Piassa"}
InsightPrices == {1, 2, 1000}

CleanedRecords == [product : CleanedProducts, location : CleanedLocations, price : InsightPrices]

GroupByKeys == {ByKey("product"), ByKey("location"), ByKeys(<<"product", "location">>)}

RECURSIVE SeqsUpTo(_, _)
SeqsUpTo(S, n) ==
    IF n = 0 THEN {<<>>}
    ELSE LET shorter == SeqsUpTo(S, n - 1)
         IN shorter \cup {Append(l, x) : l \in shorter, x \in S}

InitInsights ==
    /\ conv = [u \in Users |-> EmptyDict]
    /\ user_data = [u \in Users |-> EmptyDict]
    /\ sheet = <<SeedRow>>
    /\ next_id = 1
    /\ clock = 0
    /\ last = NoEvent
    /\ plan = NoPlan
    /\ gsheet = Connected
    /\ insights \in {[NoInsights EXCEPT !.data = l] : l \in SeqsUpTo(CleanedRecords, MaxRecords)}
    /\ fetcher = NoFetcher
    /\ rendered = NoPage

CalculateAveragePrices ==
    /\ ~insights.done
    /\ \E group_by_key \in GroupByKeys :
         \E half_ups \in SUBSET {CompositeKey(insights.data[i], group_by_key) :
                                      i \in 1..Len(insights.data)} :
            insights' = [insights EXCEPT !.key = group_by_key, !.done = TRUE,
                            !.result = calculate_average_prices(insights.data, group_by_key, half_ups)]
    /\ UNCHANGED <<conv, user_data, sheet, next_id, clock, last, plan, gsheet, fetcher, rendered>>

NextInsights == CalculateAveragePrices

SpecInsights == InitInsights /\ [][NextInsights]_vars

(***************************************************************************)
(* A scripted single-entry run: the user picks a product, a price, a       *)
(* location and a remark (plan) and sends exactly the events of the        *)
(* single-entry dialog for them, nothing in between.                       *)
(***************************************************************************)
ValidPriceTexts == {"12.5", "7"}
RemarkTexts == {"ok", "fresh"}

Plans ==
    [product : SeqToSet(ConfiguredProducts), price : ValidPriceTexts,
     location : SeqToSet(ConfiguredLocations), remark : RemarkTexts]

InitRoundTrip ==
    /\ conv = [u \in Users |-> EmptyDict]
    /\ user_data = [u \in Users |-> EmptyDict]
    /\ sheet = <<SeedRow>>
    /\ next_id = 1
    /\ clock = 0
    /\ last = NoEvent
    /\ plan \in Plans
    /\ gsheet = Connected
    /\ insights = NoInsights
    /\ fetcher = NoFetcher
    /\ rendered = NoPage

\* the create dialog, alone active for u1 in state st, accepts e with handler h
CreateAccepts(st, e, h) ==
    /\ conv["u1"] = ("create" :> st)
    /\ RegistrationOrder[1] = "create"
    /\ CheckState("create", st, e) = h

RoundTripStartNewEntry ==
    LET e == Msg("/new")
    IN /\ conv["u1"] = EmptyDict
       /\ last = NoEvent
       /\ RegistrationOrder[1] = "create"
       /\ CheckEntry("create", e) = "start_new_entry"
       /\ ApplyLocal("u1", e, "create", "start_new_entry", start_new_entry(user_data["u1"]))

RoundTripChooseSingle ==
    LET e == Btn(CB_CREATE_CHOOSE_TYPE_SINGLE)
    IN /\ CreateAccepts(CREATE_CHOOSE_ENTRY_TYPE, e, "handle_entry_type_selection")
       /\ ApplyLocal("u1", e, "create", "handle_entry_type_selection",
                     handle_entry_type_selection(user_data["u1"], e.data))

RoundTripProduct ==
    LET e == Btn(ButtonData(CB_CREATE_SINGLE_PRODUCT_PREFIX, plan.product))
    IN /\ CreateAccepts(CREATE_SINGLE_SELECT_PRODUCT, e, "single_entry_product_selection")
       /\ ApplyLocal("u1", e, "create", "single_entry_product_selection",
                     single_entry_product_selection(user_data["u1"], e.data))

RoundTripPrice ==
    LET e == Msg(plan.price)
    IN /\ CreateAccepts(CREATE_SINGLE_ENTER_PRICE, e, "single_entry_price_entry")
       /\ ApplyLocal("u1", e, "create", "single_entry_price_entry",
                     single_entry_price_entry(user_data["u1"], e.text))

RoundTripLocation ==
    LET e == Btn(ButtonData(CB_CREATE_SINGLE_LOCATION_PREFIX, plan.location))
    IN /\ CreateAccepts(CREATE_SINGLE_SELECT_LOCATION, e, "single_entry_location_selection")
       /\ ApplyLocal("u1", e, "create", "single_entry_location_selection",
                     single_entry_location_selection(user_data["u1"], e.data))

RoundTripRemark ==
    LET e == Msg(plan.remark)
    IN /\ CreateAccepts(CREATE_SINGLE_ENTER_REMARK, e, "single_entry_remark_entry")
       /\ ApplyLocal("u1", e, "create", "single_entry_remark_entry",
                     single_entry_remark_entry(user_data["u1"], e.text))

RoundTripSubmit ==
    /\ conv["u1"] = ("create" :> CREATE_SINGLE_CONFIRM_SUBMISSION)
    /\ SubmitSingleEntryData("u1")

NextRoundTrip ==
    \/ RoundTripStartNewEntry
    \/ RoundTripChooseSingle
    \/ RoundTripProduct
    \/ RoundTripPrice
    \/ RoundTripLocation
    \/ RoundTripRemark
    \/ RoundTripSubmit

SpecRoundTrip == InitRoundTrip /\ [][NextRoundTrip]_vars

(***************************************************************************)
(* An uninterrupted run of the update dialog: the user sends only what the *)
(* dialog asks for next (the id, ticks on the field checklist, a valid     *)
(* value for the field that is asked, the confirmation).                   *)
(***************************************************************************)
\* the update dialog, alone active for u1, is in state st
UpdateRunIn(st) == conv["u1"] = ("update" :> st)

\* the update dialog, alone active for u1, accepts e with handler h: no
\* entry point of a dialog registered ahead of it does
UpdateAccepts(e, h) ==
    /\ \A i \in 1..Len(RegistrationOrder) :
            (\A j \in 1..i : RegistrationOrder[j] # "update")
            => CheckEntry(RegistrationOrder[i], e) = ""
    /\ CheckState("update", conv["u1"]["update"], e) = h

\* the field whose new value is asked
FieldAsked == Get(user_data["u1"], "current_field_being_updated_key", "")

UpdateRunStart ==
    /\ conv["u1"] = EmptyDict
    /\ last = NoEvent
    /\ StartUpdateEntry("u1")

UpdateRunId ==
    /\ UpdateRunIn(UPDATE_ASK_ID)
    /\ AskIdReceived("u1")

UpdateRunToggle ==
    /\ UpdateRunIn(UPDATE_SELECT_FIELDS_TOGGLE)
    /\ \E e \in HandlerEvents["toggle_field_selection_callback"] :
            /\ Routed("u1", e, "update", "toggle_field_selection_callback")
            /\ ApplyLocal("u1", e, "update", "toggle_field_selection_callback",
                          toggle_field_selection_callback(user_data["u1"], e.data))

UpdateRunProceed ==
    /\ UpdateRunIn(UPDATE_SELECT_FIELDS_TOGGLE)
    /\ ProceedWithSelectedFieldsCallback("u1")

\* a button of the keyboard that was rendered for the field asked
UpdateRunButtonValue ==
    /\ UpdateRunIn(UPDATE_ENTER_MULTIPLE_VALUES)
    /\ \E e \in HandlerEvents["new_value_for_product_or_location_callback"] :
            /\ \/ FieldAsked = "product" /\ StartsWith(e.data, CB_UPDATE_NEWVAL_PRODUCT_PREFIX)
               \/ FieldAsked = "location" /\ StartsWith(e.data, CB_UPDATE_NEWVAL_LOCATION_PREFIX)
            /\ Routed("u1", e, "update", "new_value_for_product_or_location_callback")
            /\ ApplyLocal("u1", e, "update", "new_value_for_product_or_location_callback",
                          new_value_for_product_or_location_callback(user_data["u1"], e.data))

\* a valid price or a remark, typed when that field is asked
UpdateRunTextValue ==
    /\ UpdateRunIn(UPDATE_ENTER_MULTIPLE_VALUES)
    /\ \E text \in ValidPriceTexts \cup RemarkTexts :
            /\ \/ FieldAsked = "price" /\ text \in ValidPriceTexts
               \/ FieldAsked = "remark" /\ text \in RemarkTexts
            /\ UpdateAccepts(Msg(text), "new_value_for_text_field_received")
            /\ ApplyLocal("u1", Msg(text), "update", "new_value_for_text_field_received",
                          new_value_for_text_field_received(user_data["u1"], text))

UpdateRunSkipRemark ==
    /\ UpdateRunIn(UPDATE_ENTER_MULTIPLE_VALUES)
    /\ FieldAsked = "remark"
    /\ SkipRemarkUpdateCommand("u1")

UpdateRunConfirm ==
    /\ UpdateRunIn(UPDATE_CONFIRM_MULTIPLE)
    /\ ExecuteMultipleUpdates("u1")

NextUpdateRun ==
    \/ UpdateRunStart
    \/ UpdateRunId
    \/ UpdateRunToggle
    \/ UpdateRunProceed
    \/ UpdateRunButtonValue
    \/ UpdateRunTextValue
    \/ UpdateRunSkipRemark
    \/ UpdateRunConfirm

SpecUpdateRun == Init /\ [][NextUpdateRun]_vars

(***************************************************************************)
(* An uninterrupted run of the batch create dialog: the user chooses a     *)
(* location, gives the common remark of the plan (or skips it), ticks and  *)
(* unticks products, presses 'done', and answers every price prompt with   *)
(* any number of invalid texts followed by the price the plan holds for    *)
(* that place of the queue; then submits.                                  *)
(***************************************************************************)
InvalidPriceTexts == {"0", "-3", "abc"}

\* plan.prices[k] is the valid text sent for the k-th product priced;
\* an empty remark stands for the skip command
BatchPlans ==
    [prices : [1..NumProducts -> ValidPriceTexts], remark : {"ok", ""}]

InitBatchRun ==
    /\ conv = [u \in Users |-> EmptyDict]
    /\ user_data = [u \in Users |-> EmptyDict]
    /\ sheet = <<SeedRow>>
    /\ next_id = 1
    /\ clock = 0
    /\ last = NoEvent
    /\ plan \in BatchPlans
    /\ gsheet = Connected
    /\ insights = NoInsights
    /\ fetcher = NoFetcher
    /\ rendered = NoPage

BatchRunIn(st) == conv["u1"] = ("create" :> st)

BatchRunStart ==
    LET e == Msg("/new")
    IN /\ conv["u1"] = EmptyDict
       /\ last = NoEvent
       /\ RegistrationOrder[1] = "create"
       /\ CheckEntry("create", e) = "start_new_entry"
       /\ ApplyLocal("u1", e, "create", "start_new_entry", start_new_entry(user_data["u1"]))

BatchRunChooseBatch ==
    LET e == Btn(CB_CREATE_CHOOSE_TYPE_BATCH)
    IN /\ CreateAccepts(CREATE_CHOOSE_ENTRY_TYPE, e, "handle_entry_type_selection")
       /\ ApplyLocal("u1", e, "create", "handle_entry_type_selection",
                     handle_entry_type_selection(user_data["u1"], e.data))

BatchRunLocation ==
    /\ BatchRunIn(CREATE_BATCH_SELECT_LOCATION)
    /\ BatchCommonLocationSelection("u1")

BatchRunRemark ==
    LET e == Msg(plan.remark)
    IN /\ plan.remark # ""
       /\ CreateAccepts(CREATE_BATCH_ENTER_REMARK, e, "batch_common_remark_entry")
       /\ ApplyLocal("u1", e, "create", "batch_common_remark_entry",
                     batch_common_remark_entry(user_data["u1"], e.text))

BatchRunSkipRemark ==
    /\ plan.remark = ""
    /\ BatchRunIn(CREATE_BATCH_ENTER_REMARK)
    /\ BatchSkipCommonRemark("u1")

BatchRunToggle ==
    /\ BatchRunIn(CREATE_BATCH_TOGGLE_PRODUCTS)
    /\ ToggleBatchProductSelection("u1")

BatchRunDone ==
    /\ BatchRunIn(CREATE_BATCH_TOGGLE_PRODUCTS)
    /\ BatchProductsSelectionDone("u1")

\* the valid price of the plan for the product that is priced next
BatchRunValidPrice ==
    /\ BatchRunIn(CREATE_BATCH_ENTER_PRICE)
    /\ Len(Get(user_data["u1"], "batch_entries", <<>>)) < NumProducts
    /\ LET e == Msg(plan.prices[Len(Get(user_data["u1"], "batch_entries", <<>>)) + 1])
       IN /\ CreateAccepts(CREATE_BATCH_ENTER_PRICE, e, "batch_price_entry")
          /\ ApplyLocal("u1", e, "create", "batch_price_entry",
                        batch_price_entry(user_data["u1"], e.text))

BatchRunInvalidPrice ==
    \E text \in InvalidPriceTexts :
        LET e == Msg(text)
        IN /\ CreateAccepts(CREATE_BATCH_ENTER_PRICE, e, "batch_price_entry")
           /\ ApplyLocal("u1", e, "create", "batch_price_entry",
                         batch_price_entry(user_data["u1"], e.text))

BatchRunSubmit ==
    /\ BatchRunIn(CREATE_BATCH_CONFIRM_SUBMISSION)
    /\ SubmitBatchData("u1")

NextBatchRun ==
    \/ BatchRunStart
    \/ BatchRunChooseBatch
    \/ BatchRunLocation
    \/ BatchRunRemark
    \/ BatchRunSkipRemark
    \/ BatchRunToggle
    \/ BatchRunDone
    \/ BatchRunValidPrice
    \/ BatchRunInvalidPrice
    \/ BatchRunSubmit

SpecBatchRun == InitBatchRun /\ [][NextBatchRun]_vars

(***************************************************************************)
(* Paging through the entries: one user opens the read dialog, presses     *)
(* 'view last' and then the Prev and Next buttons of the page rendered     *)
(* last, while commits of other users add or remove a record.              *)
(***************************************************************************)
\* how many records the worksheet holds at most: enough for three pages
MaxRows == 11

\* a worksheet of n records with ids of two digits
PagedSheet(n) ==
    [i \in 1..n |->
        [SeedRow EXCEPT ![ColOf(ID_FIELD)] =
            Str("id" \o SubSeq(DIGITS, (i \div 10) + 1, (i \div 10) + 1)
                     \o SubSeq(DIGITS, (i % 10) + 1, (i % 10) + 1))]]

InitPages ==
    /\ conv = [u \in Users |-> EmptyDict]
    /\ user_data = [u \in Users |-> EmptyDict]
    /\ sheet \in {PagedSheet(n) : n \in 1..MaxRows}
    /\ next_id = 1
    /\ clock = 0
    /\ last = NoEvent
    /\ plan = NoPlan
    /\ gsheet = Connected
    /\ insights = NoInsights
    /\ fetcher = NoFetcher
    /\ rendered = NoPage

PagesOpen ==
    /\ conv["u1"] = EmptyDict
    /\ ViewEntriesCommand("u1")

\* the buttons that ask for a page: 'view last' of the read menu and the
\* buttons of the navigation row rendered last
PageButtons ==
    {CB_VIEW_LAST_N_PREFIX \o "0"}
    \cup {rendered.nav_row[i].callback_data : i \in 1..Len(rendered.nav_row)}

\* the read dialog, alone active for u1, handles a page button in
\* view_last_entries_callback; a page with entries is rendered
PagesPress ==
    \E data \in PageButtons :
        LET e == Btn(data)
            r == view_last_entries_callback(user_data["u1"], data, sheet, WorksheetOk(TRUE))
        IN /\ DOMAIN conv["u1"] = {"read"}
           /\ \A i \in 1..Len(RegistrationOrder) :
                    (\A j \in 1..i : RegistrationOrder[j] # "read")
                    => CheckEntry(RegistrationOrder[i], e) = ""
           /\ CheckState("read", conv["u1"]["read"], e) = "view_last_entries_callback"
           /\ conv' = [conv EXCEPT !["u1"] = UpdateState(@, "read", r.ret)]
           /\ user_data' = [user_data EXCEPT !["u1"] = r.ud]
           /\ last' = [user |-> "u1", nav |-> NavOf(e), d |-> "read",
                       h |-> "view_last_entries_callback", ret |-> r.ret, exc |-> r.exc,
                       out |-> r.out, kb |-> r.kb]
           /\ rendered' = IF r.kb = "pagination" THEN PageRendering(data, sheet) ELSE rendered
           /\ UNCHANGED <<sheet, next_id, clock, plan, gsheet, insights, fetcher>>

PagesBackToMenu ==
    /\ DOMAIN conv["u1"] = {"read"}
    /\ NavigateBackToViewMenu("u1")

\* a commit of another user appends a record or deletes the newest one
PagesStoreChanges ==
    /\ \E n \in {Len(sheet) - 1, Len(sheet) + 1} :
            /\ n \in 1..MaxRows
            /\ sheet' = PagedSheet(n)
    /\ UNCHANGED <<conv, user_data, next_id, clock, last, plan, gsheet, insights, fetcher, rendered>>

NextPages ==
    \/ PagesOpen
    \/ PagesPress
    \/ PagesBackToMenu
    \/ PagesStoreChanges

SpecPages == InitPages /\ [][NextPages]_vars

(***************************************************************************)
(* Two users on one worksheet of two records.  Each user runs the update   *)
(* dialog (on the second record, ticking product and price in the order    *)
(* of the checklist) or the delete dialog (on either record), one dialog   *)
(* at a time, and sends what the dialog asks for; the lookups answer.  The *)
(* events of the two users interleave in any order.  A run ends with its   *)
(* MaxCommits-th write to the worksheet.                                   *)
(***************************************************************************)
MaxCommits == 2

SharedIds == {IdText(0), IdText(1)}
SharedUpdateIds == {IdText(1)}
SharedFields == {"product", "price"}
SharedPriceTexts == {"7"}

\* dialog d, the only dialog that may be active for u, takes e with
\* handler h: no entry point of a dialog registered ahead of it does
SoleAccepts(u, e, d, h) ==
    /\ clock < MaxCommits
    /\ DOMAIN conv[u] \subseteq {d}
    /\ \A i \in 1..Len(RegistrationOrder) :
            (\A j \in 1..i : RegistrationOrder[j] # d)
            => CheckEntry(RegistrationOrder[i], e) = ""
    /\ h = (IF d \in DOMAIN conv[u] THEN CheckState(d, conv[u][d], e) ELSE CheckEntry(d, e))

SharedStartUpdate(u) ==
    LET e == Msg("/update") IN
    /\ conv[u] = EmptyDict
    /\ SoleAccepts(u, e, "update", "start_update_entry")
    /\ ApplyLocal(u, e, "update", "start_update_entry", start_update_entry(user_data[u]))

SharedUpdateId(u) ==
    \E id \in SharedUpdateIds :
        LET e == Msg(id) IN
        /\ SoleAccepts(u, e, "update", "ask_id_received")
        /\ ApplyLocal(u, e, "update", "ask_id_received",
                      ask_id_received(user_data[u], e.text, sheet, WrapperOk(TRUE)))

SharedToggle(u) ==
    \E field \in SharedFields :
        LET e == Btn(CB_UPDATE_FIELD_TOGGLE_PREFIX \o field) IN
        /\ Get(user_data[u], "fields_to_update_selected_keys", <<>>)
             \in (IF field = "product" THEN {<<>>} ELSE {<<>>, <<"product">>})
        /\ SoleAccepts(u, e, "update", "toggle_field_selection_callback")
        /\ ApplyLocal(u, e, "update", "toggle_field_selection_callback",
                      toggle_field_selection_callback(user_data[u], e.data))

SharedProceed(u) ==
    LET e == Btn(CB_UPDATE_PROCEED_WITH_SELECTION) IN
    /\ SoleAccepts(u, e, "update", "proceed_with_selected_fields_callback")
    /\ ApplyLocal(u, e, "update", "proceed_with_selected_fields_callback",
                  proceed_with_selected_fields_callback(user_data[u]))

SharedButtonValue(u) ==
    \E product \in SeqToSet(ConfiguredProducts) :
        LET e == Btn(ButtonData(CB_UPDATE_NEWVAL_PRODUCT_PREFIX, product)) IN
        /\ Get(user_data[u], "current_field_being_updated_key", "") = "product"
        /\ SoleAccepts(u, e, "update", "new_value_for_product_or_location_callback")
        /\ ApplyLocal(u, e, "update", "new_value_for_product_or_location_callback",
                      new_value_for_product_or_location_callback(user_data[u], e.data))

SharedTextValue(u) ==
    \E text \in SharedPriceTexts :
        LET e == Msg(text) IN
        /\ Get(user_data[u], "current_field_being_updated_key", "") = "price"
        /\ SoleAccepts(u, e, "update", "new_value_for_text_field_received")
        /\ ApplyLocal(u, e, "update", "new_value_for_text_field_received",
                      new_value_for_text_field_received(user_data[u], e.text))

SharedExecute(u) ==
    \E api \in BOOLEAN :
        LET e == Btn(CB_UPDATE_EXECUTE_CONFIRMED) IN
        /\ SoleAccepts(u, e, "update", "execute_multiple_updates")
        /\ execute_multiple_updates(u, e, api)

SharedStartDelete(u) ==
    LET e == Msg("/delete") IN
    /\ conv[u] = EmptyDict
    /\ SoleAccepts(u, e, "delete", "start_delete_entry")
    /\ ApplyLocal(u, e, "delete", "start_delete_entry", start_delete_entry(user_data[u]))

SharedDeleteId(u) ==
    \E id \in SharedIds :
        LET e == Msg(id) IN
        /\ SoleAccepts(u, e, "delete", "ask_id_received_for_delete")
        /\ ApplyLocal(u, e, "delete", "ask_id_received_for_delete",
                      ask_id_received_for_delete(user_data[u], e.text, sheet, WrapperOk(TRUE)))

SharedConfirmDelete(u) ==
    \E data \in {CB_DELETE_CONFIRM_YES, CB_DELETE_CONFIRM_NO}, api \in BOOLEAN :
        LET e == Btn(data) IN
        /\ SoleAccepts(u, e, "delete", "confirm_delete_callback")
        /\ confirm_delete_callback(u, e, api)

InitShared ==
    /\ conv = [u \in Users |-> EmptyDict]
    /\ user_data = [u \in Users |-> EmptyDict]
    /\ sheet = SheetOfLen(2)
    /\ next_id = 1
    /\ clock = 0
    /\ last = NoEvent
    /\ plan = NoPlan
    /\ gsheet = Connected
    /\ insights = NoInsights
    /\ fetcher = NoFetcher
    /\ rendered = NoPage

StepShared(u) ==
    \/ SharedStartUpdate(u)
    \/ SharedUpdateId(u)
    \/ SharedToggle(u)
    \/ SharedProceed(u)
    \/ SharedButtonValue(u)
    \/ SharedTextValue(u)
    \/ SharedExecute(u)
    \/ SharedStartDelete(u)
    \/ SharedDeleteId(u)
    \/ SharedConfirmDelete(u)

NextShared == \E u \in Users : StepShared(u)

SpecShared == InitShared /\ [][NextShared]_vars

(***************************************************************************)
(* The application's update loop.  main builds the application with        *)
(* Application.builder().token(...).build(): concurrent_updates is not     *)
(* set, so the application takes an update from its queue only after the   *)
(* handler of the update before it has returned, and no handler is         *)
(* registered with block=False.  A handler that touches the worksheet      *)
(* suspends in `await asyncio.to_thread(...)` until the call returns.      *)
(* An update is named by its user and the worksheet call its handler       *)
(* awaits.                                                                 *)
(***************************************************************************)
MaxUpdates == 3

StoreCalls == {"find_row_by_id", "append_rows_to_sheet", "batch_update", "delete_row_from_sheet",
               "get_all_values"}

\* how many updates have arrived
Arrived ==
    Len(fetcher.update_queue) + Len(fetcher.handled)
    + (IF fetcher.running = NoUpdate THEN 0 ELSE 1)

\* updater.start_polling puts an update of some user on the update queue
UpdateArrives ==
    /\ Arrived < MaxUpdates
    /\ \E u \in Users, call \in StoreCalls :
            fetcher' = [fetcher EXCEPT !.update_queue = Append(@, [user |-> u, call |-> call])]
    /\ UNCHANGED <<conv, user_data, sheet, next_id, clock, last, plan, gsheet, insights, rendered>>

\* the application takes the next update when no handler is running; its
\* handler runs up to the worksheet call and suspends there
FetchUpdate ==
    /\ fetcher.running = NoUpdate
    /\ fetcher.update_queue # <<>>
    /\ fetcher' = [fetcher EXCEPT !.running = Head(fetcher.update_queue),
                                   !.update_queue = Tail(@)]
    /\ UNCHANGED <<conv, user_data, sheet, next_id, clock, last, plan, gsheet, insights, rendered>>

\* the worksheet call returns; the handler resumes and runs to its end
StoreCallReturns ==
    /\ fetcher.running # NoUpdate
    /\ fetcher' = [fetcher EXCEPT !.running = NoUpdate,
                                   !.handled = Append(@, fetcher.running)]
    /\ UNCHANGED <<conv, user_data, sheet, next_id, clock, last, plan, gsheet, insights, rendered>>

NextFetcher ==
    \/ UpdateArrives
    \/ FetchUpdate
    \/ StoreCallReturns

SpecFetcher == Init /\ [][NextFetcher]_vars

(***************************************************************************)
(* Properties.                                                             *)
(***************************************************************************)
Active(u) == DOMAIN conv[u]

CommitHandlers ==
    {"submit_single_entry_data", "submit_batch_data", "execute_multiple_updates",
     "confirm_delete_callback"}

\* the last update was one of user u that a handler of a dialog handled to
\* its end
Ran(u, h) == last.user = u /\ last.h = h /\ last.exc = ""

\* C1: a user has at most one active dialog after any sequence of events.
AtMostOneActiveDialog == \A u \in Users : Cardinality(Active(u)) <= 1

\* C2: the state stored for an active dialog is a state that dialog's state
\* map declares, also after the "new entry" button arrived while a dialog
\* other than create was active.
StoredStateIsDeclared == \A u \in Users : \A d \in Active(u) : conv[u][d] \in StatesOf(d)

\* C2 (case): the "new entry" button was handled while a dialog other than
\* create was active.
NewEntryButtonBesideOtherDialog ==
    /\ last.nav = CB_MAIN_MENU_PREFIX \o "new"
    /\ last.exc = ""
    /\ Active(last.user) \ {"create"} # {}
    /\ "create" \in Active(last.user)

\* C3: after /cancel the user's fields are empty and no dialog is active.
CancelClearsAndDeactivates ==
    \A u \in Users : Ran(u, "cancel_conversation") => user_data[u] = EmptyDict /\ Active(u) = {}

PriceTextHandlers ==
    {"single_entry_price_entry", "batch_price_entry", "new_value_for_text_field_received"}

\* C4: a price text that is rejected (non-numeric or <= 0) leaves the state
\* of every dialog and the user's fields as they were.
InvalidPriceChangesNothing ==
    [][(last'.h \in PriceTextHandlers /\ StartsWith(last'.out, "Invalid price"))
        => (conv' = conv /\ user_data' = user_data)]_vars

\* C5: after the "new entry" button the create dialog is the only active
\* dialog, in its first state, the fields are cleared and the main menu is
\* not rendered.
NewEntryButtonHandsOverToCreate ==
    \A u \in Users :
        (last.user = u /\ last.nav = CB_MAIN_MENU_PREFIX \o "new")
        => /\ Active(u) = {"create"}
           /\ conv[u]["create"] = CREATE_CHOOSE_ENTRY_TYPE
           /\ user_data[u] = EmptyDict
           /\ last.kb # "main_menu"

\* C6: once a dialog has rendered the keyboard shown after an action, its
\* "main menu" button is accepted by some handler, and after that button the
\* main menu is rendered, no dialog is active and the fields are empty.
MainMenuButtonAlwaysWorks ==
    \A u \in Users :
        /\ (last.user = u /\ last.kb = "post_action")
           => Route(conv[u], Btn(CB_MAIN_MENU_PREFIX \o "menu")).h # ""
        /\ (last.user = u /\ last.nav = CB_MAIN_MENU_PREFIX \o "menu")
           => (last.kb = "main_menu" /\ Active(u) = {} /\ user_data[u] = EmptyDict)

\* C7: when a handler of a dialog returned END, the user's fields are empty
\* and that dialog is not active.
EndClearsFields ==
    \A u \in Users :
        (last.user = u /\ last.d # "" /\ last.exc = "" /\ last.ret = END)
        => (user_data[u] = EmptyDict /\ last.d \notin Active(u))

\* the rows the create dialog appended: all but the row of an earlier run
AppendedRows == {i \in 1..Len(sheet) : sheet[i][ColOf(ID_FIELD)] # Str(IdText(0))}

\* C8: every appended record has a non-empty product, a price that is a
\* number > 0 and a non-empty location.
AppendedRecordsAreComplete ==
    \A i \in AppendedRows :
        /\ sheet[i][ColOf(PRODUCT_FIELD)] # EmptyCell
        /\ sheet[i][ColOf(PRICE_FIELD)].t = "float"
        /\ sheet[i][ColOf(PRICE_FIELD)].n > 0
        /\ sheet[i][ColOf(LOCATION_FIELD)] # EmptyCell

\* dialog d of the user of the update handled in this step was in state st
WasIn(d, st) == d \in DOMAIN conv[last'.user] /\ conv[last'.user][d] = st

\* C9: the rows of the worksheet change only on submit in
\* CREATE_SINGLE_CONFIRM_SUBMISSION, submit in CREATE_BATCH_CONFIRM_SUBMISSION,
\* confirm in UPDATE_CONFIRM_MULTIPLE and "yes" in DELETE_CONFIRM.
StoreChangesOnlyOnCommit ==
    [][sheet' # sheet
        => \/ last'.h = "submit_single_entry_data" /\ WasIn("create", CREATE_SINGLE_CONFIRM_SUBMISSION)
           \/ last'.h = "submit_batch_data" /\ WasIn("create", CREATE_BATCH_CONFIRM_SUBMISSION)
           \/ last'.h = "execute_multiple_updates" /\ WasIn("update", UPDATE_CONFIRM_MULTIPLE)
           \/ /\ last'.h = "confirm_delete_callback"
              /\ last'.out = "Entry has been deleted."
              /\ WasIn("delete", DELETE_CONFIRM)]_vars

\* C9 (case): a commit changed the worksheet.
CommitChangedStore == last.h \in CommitHandlers /\ sheet # <<SeedRow>>

\* C10: the record a scripted single-entry run appends is the only new
\* record and carries the product, price, location and remark of the plan.
RoundTripRecordEqualsInputs ==
    (plan # NoPlan /\ last.h = "submit_single_entry_data"
     /\ last.out = "Entry submitted successfully.")
    => /\ Len(sheet) = 2
       /\ sheet[1] = SeedRow
       /\ sheet[2][ColOf(PRODUCT_FIELD)] = Str(plan.product)
       /\ sheet[2][ColOf(PRICE_FIELD)] = Num(ParseFloat(plan.price).val)
       /\ sheet[2][ColOf(LOCATION_FIELD)] = Str(plan.location)
       /\ sheet[2][ColOf(REMARK_FIELD)] = Str(plan.remark)

\* the members of the list user_data holds under key (none when the key is missing)
SelectionOf(ud, key) == SeqToSet(Get(ud, key, <<>>))

\* the dialogs of a user after handler result r of dialog d, when they were c
StateAfter(c, d, r) == IF r.exc # "" THEN c ELSE UpdateState(c, d, r.ret)

\* C11: whenever a toggle button of the batch product checklist or of the
\* update field checklist is accepted, pressing it twice in a row is handled
\* by the same toggle handler both times, leaves the selection with the
\* members it had (compared as a set) and leaves the dialogs' states as they were.
ToggleTwiceRestoresSelection ==
    \A u \in Users :
        /\ \A e \in HandlerEvents["toggle_batch_product_selection"] :
              LET to == [d |-> "create", h |-> "toggle_batch_product_selection"]
                  r1 == toggle_batch_product_selection(user_data[u], e.data)
                  c1 == StateAfter(conv[u], "create", r1)
                  r2 == toggle_batch_product_selection(r1.ud, e.data)
              IN Route(conv[u], e) = to
                 => /\ Route(c1, e) = to
                    /\ SelectionOf(r2.ud, "batch_selected_products")
                         = SelectionOf(user_data[u], "batch_selected_products")
                    /\ StateAfter(c1, "create", r2) = conv[u]
        /\ \A e \in HandlerEvents["toggle_field_selection_callback"] :
              LET to == [d |-> "update", h |-> "toggle_field_selection_callback"]
                  r1 == toggle_field_selection_callback(user_data[u], e.data)
                  c1 == StateAfter(conv[u], "update", r1)
                  r2 == toggle_field_selection_callback(r1.ud, e.data)
              IN Route(conv[u], e) = to
                 => /\ Route(c1, e) = to
                    /\ SelectionOf(r2.ud, "fields_to_update_selected_keys")
                         = SelectionOf(user_data[u], "fields_to_update_selected_keys")
                    /\ StateAfter(c1, "update", r2) = conv[u]

\* C11 (case): a product was just toggled and two products are ticked, so
\* toggling the first of them twice puts it behind the other one.
ToggledWithTwoProductsTicked ==
    /\ Ran(last.user, "toggle_batch_product_selection")
    /\ Len(Get(user_data[last.user], "batch_selected_products", <<>>)) = 2
    /\ conv[last.user] = ("create" :> CREATE_BATCH_TOGGLE_PRODUCTS)

\* the columns of a set of updatable fields
ColumnsOf(keys) == {ColOf(UPDATABLE_FIELDS_MAP[k]) : k \in keys}

\* C12: when an uninterrupted update run with the non-empty set S of ticked
\* fields is confirmed, the batch holds exactly one single-cell range per
\* field of S plus one for the timestamp, all on the row found at lookup, and
\* a successful batch leaves every other cell of the worksheet as it was.
UpdateWritesExactlySelectedFields ==
    [][(last'.h = "execute_multiple_updates" /\ last'.user = "u1" /\ last' # last)
        => LET ud == user_data["u1"]
               S == SelectionOf(ud, "fields_to_update_selected_keys")
               ops == update_ops(ud, clock + 1)
               cols == ColumnsOf(S) \cup {ColOf(TIMESTAMP_FIELD)}
               row == find_row_by_id(sheet, ud["update_entry_id"], TRUE).row_num
           IN /\ S # {}
              /\ Len(ops) = Cardinality(S) + 1
              /\ {ops[i].col : i \in 1..Len(ops)} = cols
              /\ \A i \in 1..Len(ops) : ops[i].row = row
              /\ Len(sheet') = Len(sheet)
              /\ \A r \in 1..Len(sheet) : \A c \in 1..Len(HEADERS) :
                    (r + 1 # row \/ c \notin cols) => sheet'[r][c] = sheet[r][c]]_vars

\* C12 (case): a confirmed run wrote a new price and the timestamp, and the
\* product and the remark of the row are the ones it had.
UpdateLeftProductAndRemark ==
    /\ last.h = "execute_multiple_updates"
    /\ last.out = "Entry updated successfully."
    /\ sheet[1][ColOf(PRICE_FIELD)] # SeedRow[ColOf(PRICE_FIELD)]
    /\ sheet[1][ColOf(TIMESTAMP_FIELD)] = Time(1)
    /\ sheet[1][ColOf(PRODUCT_FIELD)] = SeedRow[ColOf(PRODUCT_FIELD)]
    /\ sheet[1][ColOf(REMARK_FIELD)] = SeedRow[ColOf(REMARK_FIELD)]

\* what the committing handlers report when the write did not succeed
WriteFailureReports ==
    {"Entry submission failed.", "Batch submission failed.",
     "Error deleting entry from Google Sheet."}

\* the update handled last was a commit whose write to the worksheet failed
WriteFailed ==
    /\ last.h \in CommitHandlers
    /\ last.exc = "APIError" \/ last.out \in WriteFailureReports

\* C13: after a commit whose write failed, the handler has reported the
\* failure and returned END (no exception escaped it), the user's fields are
\* empty and the dialog is not active.
FailedWriteEndsAndClears ==
    WriteFailed
    => /\ last.exc = ""
       /\ last.out \in WriteFailureReports
       /\ last.ret = END
       /\ user_data[last.user] = EmptyDict
       /\ last.d \notin Active(last.user)

\* the handlers that read or write the worksheet
StoreHandlers ==
    {"ask_id_received", "ask_id_received_for_delete", "handle_id_for_view",
     "view_last_entries_callback", "insights_menu_callback"} \cup CommitHandlers

\* C14: with the worksheet not connected, a handler that reads or writes it
\* has rendered a message with the keyboard shown after an action and has
\* returned END, so its dialog is no longer active.
NotConnectedEndsDialog ==
    (~gsheet.connected /\ last.h \in StoreHandlers)
    => /\ last.exc = ""
       /\ last.ret = END
       /\ last.out # ""
       /\ last.kb = "post_action"
       /\ last.d \notin Active(last.user)

\* C15: a step in which an exception escaped the handler leaves every dialog
\* of the user active or inactive and in the state it was, and fields the
\* user had are not wiped.
HandlerErrorKeepsDialog ==
    [][last'.exc # ""
        => /\ conv' = conv
           /\ user_data[last'.user] # EmptyDict => user_data'[last'.user] # EmptyDict]_vars

\* C15 (case): an exception escaped a handler of a dialog that is active and
\* the user has fields.
HandlerRaisedInActiveDialog ==
    /\ last.exc # ""
    /\ last.d \in Active(last.user)
    /\ user_data[last.user] # EmptyDict

\* button press e matches no handler of state st of dialog d and none of d's
\* cancel fallbacks (so d's catch-all fallback is what is left for it), and
\* it is neither the "main menu" nor the "new entry" button
Unrecognized(d, st, e) ==
    /\ e.kind = "callback"
    /\ StateTable[d][st][e] = "post_conversation_callback_handler"
    /\ e.data \notin {CB_MAIN_MENU_PREFIX \o "menu", CB_MAIN_MENU_PREFIX \o "new"}

\* this step handled event e of user u, or an event that was routed to the
\* same handler and shares its "menu_nav_" payload
Took(u, e) ==
    /\ last'.user = u
    /\ Route(conv[u], e) = [d |-> last'.d, h |-> last'.h]
    /\ NavOf(e) = last'.nav

\* C16: when a user presses a button that the current state of an active
\* dialog D does not recognise (not a cancel button of D, not "main menu",
\* not "new entry"), D is inactive afterwards, the fields are empty, nothing
\* was rendered and no dialog became active.
UnrecognizedButtonEndsDialog ==
    [][\A u \in Users : \A D \in DOMAIN conv[u] : \A e \in ButtonEvents :
            (Unrecognized(D, conv[u][D], e) /\ Took(u, e))
            => /\ D \notin DOMAIN conv'[u]
               /\ user_data'[u] = EmptyDict
               /\ last'.out = "" /\ last'.kb = ""
               /\ DOMAIN conv'[u] \subseteq DOMAIN conv[u]]_vars

\* event e matches no entry point when user u has no active dialog, and
\* otherwise no handler of the current state and no fallback of any dialog
\* that is active for u
MatchesNothing(u, e) ==
    IF DOMAIN conv[u] = {}
    THEN \A d \in Dialogs : EntryTable[d][e] = ""
    ELSE \A D \in DOMAIN conv[u] : StateTable[D][conv[u][D]][e] = ""

\* C17: a step for an event that matches no entry point (no dialog active),
\* or no transition of the current state and no fallback of the active
\* dialog, leaves the user's dialogs, their states, the fields and the
\* worksheet as they were.
UnmatchedEventChangesNothing ==
    [][\A u \in Users : \A e \in Events :
            (MatchesNothing(u, e) /\ Took(u, e))
            => (conv' = conv /\ user_data' = user_data /\ sheet' = sheet)]_vars

\* the dialogs of user u that this step takes from active to not active
Ended(u) == DOMAIN conv[u] \ DOMAIN conv'[u]

\* C18 (as claimed): every step that takes a dialog from active to not
\* active renders the keyboard shown after an action ("new entry", "main
\* menu"), the hand-over of the "new entry" button to create excepted.
EveryEndRendersPostActionKeyboard ==
    [][\A u \in Users :
            (Ended(u) # {} /\ last'.nav # CB_MAIN_MENU_PREFIX \o "new")
            => last'.kb = "post_action"]_vars

\* C18 (amended): a step that takes a dialog from active to not active
\* renders the keyboard shown after an action, unless the handler is the
\* catch-all navigation fallback, which renders the main menu for the "main
\* menu" button and nothing for any other button.
EndRendersPostActionKeyboardOrNavigates ==
    [][\A u \in Users :
            Ended(u) # {}
            => IF last'.h = "post_conversation_callback_handler"
               THEN last'.kb = (IF last'.nav = CB_MAIN_MENU_PREFIX \o "menu" THEN "main_menu" ELSE "")
               ELSE last'.kb = "post_action"]_vars

\* C18 (case): a handler of the read dialog other than the catch-all
\* fallback ended the dialog and the keyboard shown after an action is up.
ReadDialogEndedWithKeyboard ==
    /\ last.d = "read"
    /\ last.h \in {"cancel_view_callback", "handle_id_for_view", "view_last_entries_callback"}
    /\ last.ret = END
    /\ "read" \notin Active(last.user)
    /\ last.kb = "post_action"

\* C19: in the read dialog, a press of "view last" for page 0 that a state
\* of the dialog accepts, when the worksheet holds no record and the read of
\* the worksheet answers (the handler reports a failed read as such),
\* renders "no data entries" with the keyboard shown after an action and
\* ends the dialog; no exception escapes and the read dialog is not active
\* afterwards.
ViewLastOfEmptyStoreEnds ==
    [][\A u \in Users : \A e \in HandlerEvents["view_last_entries_callback"] :
            (/\ "read" \in DOMAIN conv[u]
             /\ PageOf(e.data) = 0
             /\ sheet = <<>>
             /\ Took(u, e)
             /\ last'.h = "view_last_entries_callback"
             /\ last'.out # "An error occurred while fetching data.")
            => /\ last'.out = "The sheet has no data entries."
               /\ last'.kb = "post_action"
               /\ last'.ret = END
               /\ last'.exc = ""
               /\ "read" \notin DOMAIN conv'[u]]_vars

\* C19 (case): page 0 of "view last" was requested on a worksheet without
\* records and the dialog ended on the "no data entries" message.
ViewedLastOfEmptyStore ==
    /\ sheet = <<>>
    /\ last.h = "view_last_entries_callback"
    /\ last.nav = CB_VIEW_LAST_N_PREFIX \o "0"
    /\ last.out = "The sheet has no data entries."
    /\ Active(last.user) = {}

\* page index `page` lies beyond the last page of a worksheet of n records
BeyondLastPage(page, n) == n >= 1 /\ page * DEFAULT_ENTRIES_PER_PAGE_VIEW >= n

\* C20: in the read dialog, a press of "view last" for a page beyond the
\* last one (at least one record in the worksheet, the read answers) is
\* answered with a "no more entries" notice that is not an alert, and the
\* state of the read dialog is what it was before the press, in
\* VIEW_AWAITING_MENU_CHOICE as well as in VIEW_PAGINATING_ENTRIES.
ViewLastBeyondLastPageKeepsState ==
    [][\A u \in Users : \A e \in HandlerEvents["view_last_entries_callback"] :
            (/\ "read" \in DOMAIN conv[u]
             /\ conv[u]["read"] \in {VIEW_AWAITING_MENU_CHOICE, VIEW_PAGINATING_ENTRIES}
             /\ BeyondLastPage(PageOf(e.data), Len(sheet))
             /\ Took(u, e)
             /\ last'.h = "view_last_entries_callback"
             /\ last'.out # "An error occurred while fetching data.")
            => /\ last'.out = "No more entries to display."
               /\ "read" \in DOMAIN conv'[u]
               /\ conv'[u]["read"] = conv[u]["read"]]_vars

\* the positions of the records of the call whose composite key is k
RecordsWithKey(k) ==
    {i \in 1..Len(insights.data) : CompositeKey(insights.data[i], insights.key) = k}

RECURSIVE PriceSum(_)
PriceSum(I) ==
    IF I = {} THEN 0
    ELSE LET i == CHOOSE j \in I : TRUE IN insights.data[i].price + PriceSum(I \ {i})

RECURSIVE CountSum(_, _)
CountSum(result, K) ==
    IF K = {} THEN 0
    ELSE LET k == CHOOSE j \in K : TRUE IN result[k].count + CountSum(result, K \ {k})

\* the groups of the result are the key values that occur, each group
\* counts its records, and the counts add up to the number of records
GroupsAndCounts ==
    /\ DOMAIN insights.result
         = {CompositeKey(insights.data[i], insights.key) : i \in 1..Len(insights.data)}
    /\ \A k \in DOMAIN insights.result :
            insights.result[k].count = Cardinality(RecordsWithKey(k))
    /\ CountSum(insights.result, DOMAIN insights.result) = Len(insights.data)

\* C21 (as claimed): after calculate_average_prices, for a product, a
\* location or a (product, location) key, there is one group per key value
\* that occurs, its count is the number of records with that key, its
\* average is the sum of their prices divided by the count, and the counts
\* add up to the number of records.
AverageIsSumOverCount ==
    insights.done
    => /\ GroupsAndCounts
       /\ \A k \in DOMAIN insights.result :
            insights.result[k].average * insights.result[k].count = PriceSum(RecordsWithKey(k))

\* C21 (amended): as above, with the average being the sum of the prices
\* divided by the count and rounded to two decimal places: it differs from
\* the quotient by at most half a hundredth.
AverageIsRoundedSumOverCount ==
    insights.done
    => /\ GroupsAndCounts
       /\ \A k \in DOMAIN insights.result :
            LET diff == insights.result[k].average * insights.result[k].count
                          - PriceSum(RecordsWithKey(k))
            IN 2 * diff <= insights.result[k].count /\ 2 * (0 - diff) <= insights.result[k].count

\* C21 (case): a call grouped three records into two groups, and the
\* average of the larger group is not a whole number of hundredths before
\* rounding.
GroupedWithRoundedAverage ==
    /\ insights.done
    /\ Len(insights.data) = 3
    /\ Cardinality(DOMAIN insights.result) = 2
    /\ \E k \in DOMAIN insights.result :
            /\ insights.result[k].count = 2
            /\ PriceSum(RecordsWithKey(k)) % 2 = 1

\* C22: with the events of two users interleaved in any order, a step
\* changes the active dialogs, their states or the fields of a user only
\* when it handles an event of that user; handling an event of one user
\* leaves the other user's dialogs, states and fields as they were.
OnlyOwnEventsChangeAUser ==
    [][\A b \in Users :
            (conv'[b] # conv[b] \/ user_data'[b] # user_data[b]) => last'.user = b]_vars

\* C22 (case): both users are in a dialog with fields of their own, in
\* different states, and the event handled last was one of u1.
BothUsersInADialog ==
    /\ last.user = "u1"
    /\ "update" \in Active("u1") /\ "delete" \in Active("u2")
    /\ conv["u1"]["update"] = UPDATE_CONFIRM_MULTIPLE
    /\ conv["u2"]["delete"] = DELETE_CONFIRM
    /\ user_data["u1"] # user_data["u2"]
    /\ "delete_row_num" \in DOMAIN user_data["u2"]

\* C23: while the handler of one user is suspended in a worksheet call and
\* an update of another user is next in the queue, the application can take
\* that update (and handle it before the first handler resumes).
OtherUsersAreHandledDuringStoreCall ==
    (/\ fetcher.running # NoUpdate
     /\ fetcher.update_queue # <<>>
     /\ Head(fetcher.update_queue).user # fetcher.running.user)
    => ENABLED FetchUpdate

\* the rows of worksheet sh whose id cell is not id
RowsOtherThan(sh, id) == SelectSeq(sh, LAMBDA row : row[ColOf(ID_FIELD)] # Str(id))

\* this step is a write to the worksheet by handler h for user u
Committed(u, h) == last'.user = u /\ last'.h = h /\ clock' = clock + 1

\* C24: with the commits of another user interleaved in any order between
\* a user's lookup and confirmation, a delete that succeeds removes the
\* record whose id the user entered and leaves every other record as it
\* was, and an update that succeeds modifies the record whose id the user
\* entered and leaves every other record as it was.
CommitTouchesTheLookedUpRecord ==
    [][\A u \in Users :
            /\ (Committed(u, "confirm_delete_callback") /\ last'.exc = "")
               => LET id == user_data[u]["delete_entry_id"]
                  IN /\ sheet' = RowsOtherThan(sheet, id)
                     /\ \E i \in 1..Len(sheet) : sheet[i][ColOf(ID_FIELD)] = Str(id)
            /\ (Committed(u, "execute_multiple_updates") /\ last'.exc = "")
               => LET id == user_data[u]["update_entry_id"]
                  IN /\ Len(sheet') = Len(sheet)
                     /\ \A i \in 1..Len(sheet) :
                            sheet'[i] # sheet[i] => sheet[i][ColOf(ID_FIELD)] = Str(id)
                     /\ \E i \in 1..Len(sheet) : sheet'[i] # sheet[i]]_vars

\* the record of the worksheet at the row user u's update dialog stored at
\* lookup still carries the id u entered
RowStillHoldsId(u) ==
    LET i == user_data[u]["update_row_num"] - 1
    IN i \in 1..Len(sheet) /\ sheet[i][ColOf(ID_FIELD)] = Str(user_data[u]["update_entry_id"])

\* the record at that row is no longer what u's lookup returned
ChangedSinceLookup(u) ==
    ZipHeaders(TrimCells(sheet[user_data[u]["update_row_num"] - 1]))
        # user_data[u]["update_original_data"]

\* C25: when a user confirms an update of a record that another commit has
\* changed since the user looked it up, the record still being at the row
\* the lookup found, the commit is applied all the same: afterwards every
\* field the user entered a value for carries that value (also a field the
\* earlier commit had written), and every other field except the timestamp
\* is as the earlier commit left it.
LaterUpdateOverwritesEarlier ==
    [][\A u \in Users :
            (/\ last'.user = u /\ last'.h = "execute_multiple_updates"
             /\ last'.exc = ""
             /\ conv[u] = ("update" :> UPDATE_CONFIRM_MULTIPLE)
             /\ RowStillHoldsId(u)
             /\ ChangedSinceLookup(u))
            => LET i == user_data[u]["update_row_num"] - 1
                   new_values == user_data[u]["new_values_for_update_map"]
               IN /\ clock' = clock + 1
                  /\ Len(sheet') = Len(sheet)
                  /\ \A j \in 1..Len(sheet) : j # i => sheet'[j] = sheet[j]
                  /\ \A c \in 1..Len(HEADERS) :
                        IF HEADERS[c] \in DOMAIN new_values
                        THEN sheet'[i][c] = Cell(new_values[HEADERS[c]])
                        ELSE HEADERS[c] # TIMESTAMP_FIELD => sheet'[i][c] = sheet[i][c]]_vars

\* C25 (case): both users looked up record id1; u1 has committed a product
\* and a price for it, and u2 is about to confirm another product for the
\* record it looked up before u1's commit.
TwoUsersUpdateOneRecord ==
    /\ clock = 1
    /\ last.user = "u1" /\ last.h = "execute_multiple_updates" /\ last.exc = ""
    /\ conv["u2"] = ("update" :> UPDATE_CONFIRM_MULTIPLE)
    /\ user_data["u2"]["update_entry_id"] = IdText(1)
    /\ RowStillHoldsId("u2")
    /\ ChangedSinceLookup("u2")
    /\ PRODUCT_FIELD \in DOMAIN user_data["u2"]["new_values_for_update_map"]
    /\ sheet[2][ColOf(PRODUCT_FIELD)] # user_data["u2"]["update_original_data"][PRODUCT_FIELD]
    /\ sheet[2][ColOf(PRODUCT_FIELD)] # Cell(user_data["u2"]["new_values_for_update_map"][PRODUCT_FIELD])
    /\ sheet[2][ColOf(PRICE_FIELD)] # user_data["u2"]["update_original_data"][PRICE_FIELD]

\* C26: whenever the update dialog of a user is in
\* UPDATE_SELECT_FIELDS_TOGGLE, UPDATE_ENTER_MULTIPLE_VALUES or
\* UPDATE_CONFIRM_MULTIPLE, the user's fields hold the row number and the id
\* of the lookup, the original record and the map of new values; whenever
\* the delete dialog is in DELETE_CONFIRM, they hold the row number and the
\* id of the lookup.
LookupFieldsPresent ==
    \A u \in Users :
        /\ ("update" \in Active(u)
             /\ conv[u]["update"] \in {UPDATE_SELECT_FIELDS_TOGGLE, UPDATE_ENTER_MULTIPLE_VALUES,
                                        UPDATE_CONFIRM_MULTIPLE})
           => {"update_row_num", "update_entry_id", "update_original_data",
               "new_values_for_update_map"} \subseteq DOMAIN user_data[u]
        /\ ("delete" \in Active(u) /\ conv[u]["delete"] = DELETE_CONFIRM)
           => {"delete_row_num", "delete_entry_id"} \subseteq DOMAIN user_data[u]

\* the values the buttons of a field's own keyboard record for that field
OptionsOfButtons(prefix, items) ==
    {Str(clean_and_format_for_display(StrReplace(ButtonData(prefix, item), prefix, ""))) :
        item \in SeqToSet(items)}

\* new_value is of the kind of the column field
OfFieldsKind(field, new_value) ==
    IF field = PRODUCT_FIELD
    THEN new_value \in OptionsOfButtons(CB_UPDATE_NEWVAL_PRODUCT_PREFIX, PRODUCTS)
    ELSE IF field = LOCATION_FIELD
    THEN new_value \in OptionsOfButtons(CB_UPDATE_NEWVAL_LOCATION_PREFIX, LOCATIONS)
    ELSE IF field = PRICE_FIELD
    THEN new_value.t = "float" /\ new_value.n > 0
    ELSE new_value.t = "str"

\* C27: every new value the update dialog has recorded for a field is of
\* that field's kind: for product and for location a value that a button of
\* that field's own keyboard records, for price a number greater than 0,
\* for remark a text (possibly empty).
RecordedValuesAreOfTheirFieldsKind ==
    \A u \in Users :
        ("update" \in Active(u) /\ "new_values_for_update_map" \in DOMAIN user_data[u])
        => \A field \in DOMAIN user_data[u]["new_values_for_update_map"] :
                OfFieldsKind(field, user_data[u]["new_values_for_update_map"][field])

\* the queue of fields still to be asked, and the fields ticked on the checklist
QueueOf(ud) == Get(ud, "update_fields_queue", <<>>)
SelectedOf(ud) == Get(ud, "fields_to_update_selected_keys", <<>>)

\* the place of a field in the order product, price, location, remark
PlaceInFixedOrder(key) ==
    CHOOSE i \in 1..4 : <<"product", "price", "location", "remark">>[i] = key

\* queue holds exactly the fields of selected, each once, in the fixed order
InFixedOrder(queue, selected) ==
    /\ SeqToSet(queue) = SeqToSet(selected)
    /\ \A i, j \in 1..Len(queue) :
            i < j => PlaceInFixedOrder(queue[i]) < PlaceInFixedOrder(queue[j])

\* the handlers of the update dialog that ask for the next field
AskingHandlers ==
    {"proceed_with_selected_fields_callback", "new_value_for_product_or_location_callback",
     "new_value_for_text_field_received", "skip_remark_update_command"}

\* C28: pressing Proceed with a non-empty selection queues the selected
\* fields in the order product, price, location, remark, whatever the order
\* of the ticks; every step that records a value removes exactly the head
\* of the queue, so each selected field is asked once; and every step that
\* builds or shortens the queue reaches the confirmation state exactly when
\* it leaves the queue empty, and otherwise stays in the value-entry state
\* and asks for the head of the queue.
SelectedFieldsArePromptedInFixedOrder ==
    [][\A u \in Users :
        (/\ last'.user = u
         /\ last'.d = "update"
         /\ last'.h \in AskingHandlers
         /\ last'.exc = ""
         /\ IF last'.h = "proceed_with_selected_fields_callback"
            THEN SelectedOf(user_data[u]) # <<>>
            ELSE QueueOf(user_data'[u]) # QueueOf(user_data[u]))
        => /\ last'.h = "proceed_with_selected_fields_callback"
              => InFixedOrder(QueueOf(user_data'[u]), SelectedOf(user_data[u]))
           /\ last'.h # "proceed_with_selected_fields_callback"
              => /\ QueueOf(user_data[u]) # <<>>
                 /\ QueueOf(user_data'[u]) = Tail(QueueOf(user_data[u]))
           /\ (last'.ret = UPDATE_CONFIRM_MULTIPLE) <=> (QueueOf(user_data'[u]) = <<>>)
           /\ (last'.ret = UPDATE_ENTER_MULTIPLE_VALUES) <=> (QueueOf(user_data'[u]) # <<>>)
           /\ QueueOf(user_data'[u]) # <<>>
              => /\ last'.out = "new value for: " \o Head(QueueOf(user_data'[u]))
                 /\ user_data'[u]["current_field_being_updated_key"] = Head(QueueOf(user_data'[u]))
    ]_vars

\* the fields were ticked price first, product second, and product is asked first
TickedInReverseAskedInFixedOrder ==
    /\ conv["u1"] = ("update" :> UPDATE_ENTER_MULTIPLE_VALUES)
    /\ last.h = "proceed_with_selected_fields_callback"
    /\ SelectedOf(user_data["u1"]) = <<"price", "product">>
    /\ QueueOf(user_data["u1"]) = <<"product", "price">>
    /\ last.out = "new value for: product"

\* the store holds a record with this id
IdInStore(sh, entry_id) == \E i \in 1..Len(sh) : sh[i][ColOf(ID_FIELD)] = Str(entry_id)

\* the step re-prompts user u in dialog d: same state, same fields, same store
Reprompted(u, d) ==
    /\ conv' = conv
    /\ user_data' = user_data
    /\ sheet' = sheet
    /\ last'.ret = conv[u][d]
    /\ last'.kb = ""

EveryEnteredIdIsAbsent ==
    \A e \in HandlerEvents["handle_id_for_view"] : ~IdInStore(sheet, StrStrip(e.text))

\* C30: when the id entered in VIEW_AWAITING_ID_INPUT is not in the store,
\* the step of the id handler leaves the read dialog active in
\* VIEW_AWAITING_ID_INPUT.
AbsentIdKeepsViewDialogActive ==
    [][\A u \in Users :
        (/\ last'.user = u
         /\ last'.d = "read"
         /\ last'.h = "handle_id_for_view"
         /\ EveryEnteredIdIsAbsent)
        => /\ "read" \in Active(u)'
           /\ conv'[u]["read"] = VIEW_AWAITING_ID_INPUT
    ]_vars

\* the products ticked on the batch checklist, and the queue of products
\* whose price is still to be asked
BatchSelectedOf(ud) == Get(ud, "batch_selected_products", <<>>)
BatchQueueOf(ud) == Get(ud, "batch_price_queue", <<>>)

\* C31: pressing 'done' on the batch checklist with nothing ticked leaves
\* the create dialog in CREATE_BATCH_TOGGLE_PRODUCTS with the fields as they
\* were (no price queue is created); and a step that brings the create
\* dialog into CREATE_BATCH_ENTER_PRICE is a 'done' with at least one
\* product ticked, which queues the ticked products.
DoneNeedsASelectedProduct ==
    [][\A u \in Users :
        /\ (/\ last'.user = u
            /\ last'.d = "create"
            /\ last'.h = "batch_products_selection_done"
            /\ BatchSelectedOf(user_data[u]) = <<>>)
           => /\ conv' = conv
              /\ conv[u]["create"] = CREATE_BATCH_TOGGLE_PRODUCTS
              /\ last'.ret = CREATE_BATCH_TOGGLE_PRODUCTS
              /\ user_data' = user_data
        /\ (/\ last'.user = u
            /\ "create" \in Active(u)'
            /\ conv'[u]["create"] = CREATE_BATCH_ENTER_PRICE
            /\ ~("create" \in Active(u) /\ conv[u]["create"] = CREATE_BATCH_ENTER_PRICE))
           => /\ last'.h = "batch_products_selection_done"
              /\ BatchSelectedOf(user_data[u]) # <<>>
              /\ BatchQueueOf(user_data'[u]) = BatchSelectedOf(user_data[u])
    ]_vars

\* 'done' was pressed with nothing ticked and only alerted
DonePressedWithNothingSelected ==
    /\ conv["u1"] = ("create" :> CREATE_BATCH_TOGGLE_PRODUCTS)
    /\ last.h = "batch_products_selection_done"
    /\ last.out = "alert: Please select at least one product before proceeding."
    /\ BatchSelectedOf(user_data["u1"]) = <<>>
    /\ "batch_price_queue" \notin DOMAIN user_data["u1"]

\* the completed entries of the batch, and their products in order
BatchEntriesOf(ud) == Get(ud, "batch_entries", <<>>)
ProductsOfEntries(entries) == [i \in 1..Len(entries) |-> entries[i].product.s]

\* the state of the price loop of user u1 is consistent: the queue is not
\* empty, its head is the product being priced, and the completed entries
\* followed by the queue are the selection, every entry with the common
\* location and remark
PriceLoopConsistent(ud) ==
    /\ BatchQueueOf(ud) # <<>>
    /\ "batch_current_product_for_price" \in DOMAIN ud
    /\ ud["batch_current_product_for_price"] = Head(BatchQueueOf(ud))
    /\ ProductsOfEntries(BatchEntriesOf(ud)) \o BatchQueueOf(ud) = BatchSelectedOf(ud)
    /\ \A i \in 1..Len(BatchEntriesOf(ud)) :
            /\ BatchEntriesOf(ud)[i].location = Str(ud["batch_common_location"])
            /\ BatchEntriesOf(ud)[i].remark = Str(plan.remark)

\* C32: in an uninterrupted batch run, whenever the dialog is in
\* CREATE_BATCH_ENTER_PRICE the price queue is not empty, its head is the
\* product being priced, and the completed entries followed by the queue
\* are the selection as it was at 'done'; a price message either is
\* rejected and changes nothing, or removes exactly the head of the queue
\* and appends exactly one entry: that product, the price sent, the common
\* location and the common remark; and no price step changes the selection.
PriceLoopKeepsEntriesAndQueue ==
    [][/\ BatchRunIn(CREATE_BATCH_ENTER_PRICE)' => PriceLoopConsistent(user_data'["u1"])
       /\ (last'.h = "batch_price_entry" /\ BatchRunIn(CREATE_BATCH_ENTER_PRICE))
          => LET ud == user_data["u1"]
                 k == Len(BatchEntriesOf(ud)) + 1
             IN \/ /\ last'.out = "Invalid price. Please enter a positive number"
                   /\ user_data' = user_data
                   /\ conv' = conv
                \/ /\ BatchQueueOf(user_data'["u1"]) = Tail(BatchQueueOf(ud))
                   /\ BatchEntriesOf(user_data'["u1"])
                        = Append(BatchEntriesOf(ud),
                                 [product |-> Str(Head(BatchQueueOf(ud))),
                                  price |-> Num(ParseFloat(plan.prices[k]).val),
                                  location |-> Str(ud["batch_common_location"]),
                                  remark |-> Str(plan.remark)])
                   /\ BatchSelectedOf(user_data'["u1"]) = BatchSelectedOf(ud)
    ]_vars

\* two products were ticked, the first is priced, the second is being priced
SecondProductBeingPriced ==
    /\ BatchRunIn(CREATE_BATCH_ENTER_PRICE)
    /\ Len(BatchSelectedOf(user_data["u1"])) = 2
    /\ Len(BatchEntriesOf(user_data["u1"])) = 1
    /\ BatchQueueOf(user_data["u1"]) = <<BatchSelectedOf(user_data["u1"])[2]>>
    /\ last.h = "batch_price_entry"

\* C33: in an uninterrupted batch run with k >= 1 products ticked, the
\* dialog is in the price loop while fewer than k valid prices were given
\* and in CREATE_BATCH_CONFIRM_SUBMISSION only with exactly k of them; an
\* invalid price leaves the count and the state as they are, and a valid
\* price raises the count by one and reaches the confirmation exactly when
\* it is the k-th.
ConfirmationAfterExactlyKValidPrices ==
    [][LET ud == user_data["u1"]
           k == Len(BatchSelectedOf(ud))
           valid == Len(BatchEntriesOf(ud))
           valid_after == Len(BatchEntriesOf(user_data'["u1"]))
       IN /\ BatchRunIn(CREATE_BATCH_ENTER_PRICE)'
             => /\ Len(BatchSelectedOf(user_data'["u1"])) >= 1
                /\ valid_after < Len(BatchSelectedOf(user_data'["u1"]))
          /\ BatchRunIn(CREATE_BATCH_CONFIRM_SUBMISSION)'
             => /\ Len(BatchSelectedOf(user_data'["u1"])) >= 1
                /\ valid_after = Len(BatchSelectedOf(user_data'["u1"]))
          /\ (last'.h = "batch_price_entry" /\ BatchRunIn(CREATE_BATCH_ENTER_PRICE))
             => \/ /\ last'.out = "Invalid price. Please enter a positive number"
                   /\ valid_after = valid
                   /\ BatchRunIn(CREATE_BATCH_ENTER_PRICE)'
                \/ /\ last'.out # "Invalid price. Please enter a positive number"
                   /\ valid_after = valid + 1
                   /\ IF valid_after = k
                      THEN BatchRunIn(CREATE_BATCH_CONFIRM_SUBMISSION)'
                      ELSE BatchRunIn(CREATE_BATCH_ENTER_PRICE)'
    ]_vars

\* two products were ticked and the second valid price reached the confirmation
ConfirmationReachedAfterTwoPrices ==
    /\ BatchRunIn(CREATE_BATCH_CONFIRM_SUBMISSION)
    /\ last.h = "batch_price_entry"
    /\ Len(BatchSelectedOf(user_data["u1"])) = 2
    /\ Len(BatchEntriesOf(user_data["u1"])) = 2

\* the ids of the records of the store
IdsOf(sh) == {sh[i][ColOf(ID_FIELD)] : i \in 1..Len(sh)}

\* C34: in an uninterrupted batch run with N priced products, the submit
\* either fails and leaves the store as it is, or is one write that appends
\* exactly N rows after the rows of the store: the i-th row carries the
\* i-th product of the selection list, the price sent for it, the common
\* location and the common remark, and the N ids are pairwise distinct and
\* differ from the ids already in the store.
BatchSubmitAppendsOneRowPerProduct ==
    [][(last'.h = "submit_batch_data" /\ BatchRunIn(CREATE_BATCH_CONFIRM_SUBMISSION))
       => LET ud == user_data["u1"]
              N == Len(BatchSelectedOf(ud))
          IN \/ /\ last'.out = "Batch submission failed."
                /\ sheet' = sheet
                /\ clock' = clock
             \/ /\ last'.out = "Batch submitted successfully."
                /\ clock' = clock + 1
                /\ N >= 1
                /\ Len(sheet') = Len(sheet) + N
                /\ SubSeq(sheet', 1, Len(sheet)) = sheet
                /\ \A i \in 1..N :
                        LET row == sheet'[Len(sheet) + i]
                        IN /\ row[ColOf(PRODUCT_FIELD)] = Str(BatchSelectedOf(ud)[i])
                           /\ row[ColOf(PRICE_FIELD)] = Num(ParseFloat(plan.prices[i]).val)
                           /\ row[ColOf(LOCATION_FIELD)] = Str(ud["batch_common_location"])
                           /\ row[ColOf(REMARK_FIELD)] = Str(plan.remark)
                           /\ row[ColOf(ID_FIELD)] \notin IdsOf(sheet)
                           /\ \A j \in 1..N :
                                 i # j => row[ColOf(ID_FIELD)]
                                          # sheet'[Len(sheet) + j][ColOf(ID_FIELD)]
    ]_vars

\* a batch of two products with different prices was appended
BatchOfTwoSubmitted ==
    /\ last.h = "submit_batch_data"
    /\ last.out = "Batch submitted successfully."
    /\ Len(sheet) = 3
    /\ sheet[2][ColOf(PRODUCT_FIELD)] # sheet[3][ColOf(PRODUCT_FIELD)]
    /\ sheet[2][ColOf(PRICE_FIELD)] # sheet[3][ColOf(PRICE_FIELD)]

\* no element occurs twice in the list
NoDuplicates(l) == \A i, j \in 1..Len(l) : i # j => l[i] # l[j]

\* the rows of sh that follow the rows of old
RowsAppendedTo(old, sh) == SubSeq(sh, Len(old) + 1, Len(sh))

\* C35: the batch selection list of a user never holds a product twice,
\* neither do the price queue nor the products of the completed entries,
\* and the rows a batch submit appends hold each product at most once.
NoProductTwiceInBatch ==
    [][\A u \in Users :
        /\ NoDuplicates(BatchSelectedOf(user_data'[u]))
        /\ NoDuplicates(BatchQueueOf(user_data'[u]))
        /\ NoDuplicates(ProductsOfEntries(BatchEntriesOf(user_data'[u])))
        /\ (last'.user = u /\ last'.h = "submit_batch_data")
           => NoDuplicates([i \in 1..(Len(sheet') - Len(sheet)) |->
                                RowsAppendedTo(sheet, sheet')[i][ColOf(PRODUCT_FIELD)]])
    ]_vars

\* both products were ticked and priced: the batch to commit holds two entries
TwoProductsTickedAndPriced ==
    /\ conv["u1"] = ("create" :> CREATE_BATCH_CONFIRM_SUBMISSION)
    /\ Len(BatchSelectedOf(user_data["u1"])) = NumProducts
    /\ Len(BatchEntriesOf(user_data["u1"])) = NumProducts
    /\ BatchQueueOf(user_data["u1"]) = <<>>

\* the buttons of the navigation row with this label
ButtonsLabelled(nav_row, text) ==
    {nav_row[i].callback_data : i \in {j \in 1..Len(nav_row) : nav_row[j].text = text}}

\* the smaller of two numbers
Smaller(a, b) == IF a < b THEN a ELSE b

\* how many records the store held when the page was rendered: the entry
\* number shown for the first entry, plus the entries of the pages before
TotalWhenRendered(pg) == pg.entry_nums[1] + pg.page * 5

\* C36: a rendered page k of n >= 1 records shows the records k*5 ..
\* min(n, (k+1)*5) - 1 of the newest-first order; it has a Prev button iff
\* k > 0, carrying page k - 1, and a Next button iff (k+1)*5 < n, carrying
\* page k + 1; and pressing a button of the navigation row rendered last,
\* while the store holds as many records as when it was rendered, renders a
\* page with entries.
PagesShowTheirRecordsAndValidButtons ==
    [][(last'.h = "view_last_entries_callback" /\ last'.user = "u1" /\ sheet' = sheet)
       => LET n == Len(sheet)
              k == PageOf(last'.nav)
          IN /\ last'.kb = "pagination"
                => /\ n >= 1
                   /\ rendered'.page = k
                   /\ k * 5 < n
                   /\ Len(rendered'.entries) = Smaller(n, (k + 1) * 5) - k * 5
                   /\ \A i \in 1..Len(rendered'.entries) :
                          \* record k*5 + i - 1, counted from 0 from the newest
                          rendered'.entries[i] = sheet[n - (k * 5 + i - 1)]
                   /\ ButtonsLabelled(rendered'.nav_row, "Prev")
                        = IF k > 0 THEN {CB_VIEW_LAST_N_PREFIX \o NatStr(k - 1)} ELSE {}
                   /\ ButtonsLabelled(rendered'.nav_row, "Next")
                        = IF (k + 1) * 5 < n THEN {CB_VIEW_LAST_N_PREFIX \o NatStr(k + 1)} ELSE {}
                   /\ \A i \in 1..Len(rendered'.nav_row) :
                          rendered'.nav_row[i].text \in {"Prev", "Next"}
                   /\ \A b \in ButtonsLabelled(rendered'.nav_row, "Prev") : PageOf(b) = k - 1
                   /\ \A b \in ButtonsLabelled(rendered'.nav_row, "Next") : PageOf(b) = k + 1
             /\ (/\ rendered # NoPage
                 /\ \E i \in 1..Len(rendered.nav_row) :
                        rendered.nav_row[i].callback_data = last'.nav
                 /\ TotalWhenRendered(rendered) = n)
                => /\ last'.kb = "pagination"
                   /\ rendered'.entries # <<>>
    ]_vars

\* the third page of eleven records was reached with Next: it shows the
\* oldest record and has a Prev button only
ThirdPageOfElevenRecords ==
    /\ Len(sheet) = 11
    /\ last.h = "view_last_entries_callback"
    /\ last.nav = CB_VIEW_LAST_N_PREFIX \o "2"
    /\ rendered.page = 2
    /\ rendered.entries = <<sheet[1]>>
    /\ Len(rendered.nav_row) = 1
    /\ rendered.nav_row[1].text = "Prev"

\* C37: a user without an active dialog has no fields.
NoDialogNoFields ==
    \A u \in Users : Active(u) = {} => user_data[u] = EmptyDict

\* the last dialog of u1 ended through a branch of view_last_entries_callback
\* that returns END without clearing the fields
ReadEndedWithoutClearing ==
    /\ Active("u1") = {}
    /\ last.user = "u1"
    /\ last.h = "view_last_entries_callback"
    /\ last.ret = END
    /\ last.out = "An error occurred while fetching data."

\* the handler the application runs for each global command
GlobalCommandHandler ==
    [start |-> "generic_start_command", help |-> "generic_start_command",
     menu |-> "main_menu_command_simple"]

\* C38: in every state a user reaches, /start, /help and /menu are taken by
\* no dialog but by their global handlers; and a step of these handlers
\* renders the main menu and leaves every dialog's state, every user's
\* fields and the store as they were.
GlobalCommandsOnlyRenderTheMenu ==
    [][\A u \in Users :
        /\ \A c \in DOMAIN GlobalCommandHandler :
              Route(conv'[u], Msg("/" \o c)) = [d |-> "", h |-> GlobalCommandHandler[c]]
        /\ (last'.user = u /\ last'.d = ""
              /\ last'.h \in {"generic_start_command", "main_menu_command_simple"})
           => /\ last'.out = "Welcome! Select an option:"
              /\ last'.kb = "main_menu"
              /\ last'.exc = ""
              /\ conv' = conv
              /\ user_data' = user_data
              /\ sheet' = sheet
    ]_vars

\* /start, /help or /menu was sent while the update dialog waits for the
\* fields to tick, with the lookup in the fields
MenuRenderedDuringUpdate ==
    /\ conv["u1"] = ("update" :> UPDATE_SELECT_FIELDS_TOGGLE)
    /\ "update_row_num" \in DOMAIN user_data["u1"]
    /\ last.d = ""
    /\ last.h \in {"generic_start_command", "main_menu_command_simple"}
    /\ last.kb = "main_menu"

EntryCommand ==
    [create |-> "/new", read |-> "/view", update |-> "/update", delete |-> "/delete",
     insights |-> "/insights"]

\* C39: whenever a user has exactly one active dialog, that dialog's own entry
\* command is accepted by no handler (neither by the dialog, whose entry points
\* are not consulted while it is active, nor by any other handler), so the
\* event is dropped, which leaves the dialog's state and the user's fields as
\* they are.
OwnEntryCommandIsDropped ==
    \A u \in Users : \A d \in Dialogs :
        DOMAIN conv[u] = {d}
            => Route(conv[u], Msg(EntryCommand[d])) = [d |-> "", h |-> ""]

\* the create dialog is alone and past its first step, with a field stored,
\* and /new sent now finds no handler
CreateAloneWithFields ==
    /\ conv["u1"] = ("create" :> CREATE_BATCH_TOGGLE_PRODUCTS)
    /\ "batch_common_location" \in DOMAIN user_data["u1"]
    /\ Route(conv["u1"], Msg("/new")) = [d |-> "", h |-> ""]

============================================================================
